---- MODULE Spec2Model ----
(***************************************************************************)
(* A model of the command / interaction dispatch engine of djs-suite:      *)
(* CommandHandler (registry, cooldowns, permission gate, listeners) and    *)
(* InteractionManager (component handler table and its listener).          *)
(*                                                                         *)
(* Strings the code takes apart (message contents, command names,          *)
(* customIds) are sequences of one-character strings.                      *)
(***************************************************************************)
EXTENDS Integers, Sequences, FiniteSets, Bags, TLC

VARIABLES
    now,            \* Date.now(), in milliseconds
    commands,       \* CommandHandler.commands : name or alias -> command object
    cooldownUsers,  \* the users that have a per-user Collection in this.cooldowns
    cooldowns,      \* this.cooldowns : userId -> (commandIdentifier -> timestamp)
    timers,         \* the pending setTimeout callbacks of _handleCooldown (a bag)
    handlers,       \* InteractionManager.handlers, in insertion order
    ev,             \* the events being handled: one record per listener run
    arrived,        \* how many events the client has emitted so far
    lastReady,      \* history: when (user, command) last passed the cooldown check
    gUser,          \* permission gate harness: the actor's id
    gCommand,       \* permission gate harness: the command object
    gMember,        \* permission gate harness: the member (or null)
    gResult,        \* permission gate harness: what _checkPermissions gave
    rFiles,         \* command loading: the files of commandDir, in reading order
    rIdx,           \* command loading: the file the for loop is at
    rCommands,      \* command loading: this.commands as the loop fills it
    rLog,           \* command loading: the logger calls of the loop
    tTable,         \* handler table harness: InteractionManager.handlers
    tBound,         \* handler table harness, history: the bindings made, by
                    \*   pattern and kind
    tLast,          \* handler table harness: the last registerHandler call
    tCalls,         \* handler table harness: how many calls were made
    pCommands,      \* slash command registration: this.commands
    pOptions,       \* slash command registration: options.devGuildId and
                    \*   options.registerGlobally, client.token, application id
    pPc,            \* slash command registration: where registerSlashCommands is
    pCalls,         \* slash command registration: the rest.put calls made
    pLog,           \* slash command registration: its logger calls
    pRemote,        \* the commands the platform holds, per scope
    pPut,           \* how the rest.put call settled: "none", "ok", "failed"
    mPrefix,        \* message intake: options.prefix of the handler
    mIn,            \* message intake: the message the client emits
    mOut,           \* message intake: what its listeners left behind
    fIn,            \* fault report: the run whose handler throws, and the error
    fOut,           \* fault report: what the catch block logs and sends
    pgIn,           \* pagination: the call (function, items, interaction state)
    pgState         \* pagination: currentPage, the message shown, the clicks

vars == <<now, commands, cooldownUsers, cooldowns, timers, handlers, ev, arrived,
          lastReady, gUser, gCommand, gMember, gResult, rFiles, rIdx, rCommands,
          rLog, tTable, tBound, tLast, tCalls, pCommands, pOptions, pPc, pCalls,
          pLog, pRemote, pPut, mPrefix, mIn, mOut, fIn, fOut, pgIn, pgState>>

dispatchVars == <<now, commands, cooldownUsers, cooldowns, timers, handlers, ev,
                  arrived, lastReady>>

gateVars == <<gUser, gCommand, gMember, gResult>>

registryVars == <<rFiles, rIdx, rCommands, rLog>>

\* what the listeners never touch
tableVars == <<tTable, tBound, tLast, tCalls>>

pushVars == <<pCommands, pOptions, pPc, pCalls, pLog, pRemote, pPut>>

messageVars == <<mPrefix, mIn, mOut>>

faultVars == <<fIn, fOut>>

pageVars == <<pgIn, pgState>>

benchVars == <<gateVars, registryVars, tableVars, pushVars, messageVars, faultVars,
               pageVars>>

----------------------------------------------------------------------------
(* Small helpers on sequences.                                             *)

Range(s) == {s[i] : i \in 1..Len(s)}

\* s.startsWith(p)
StartsWith(s, p) == Len(p) <= Len(s) /\ SubSeq(s, 1, Len(p)) = p

\* s.endsWith(<<c>>)
EndsWithChar(s, c) == Len(s) > 0 /\ s[Len(s)] = c

\* s.slice(n)
Slice(s, n) == SubSeq(s, n + 1, Len(s))

----------------------------------------------------------------------------
(* Command types (CommandType enum) and interaction kinds.                 *)

SLASH == "SLASH"
USER == "USER"
MESSAGE == "MESSAGE"
LEGACY == "LEGACY"

CommandType == {SLASH, USER, MESSAGE, LEGACY}

----------------------------------------------------------------------------
(* PermissionUtils and CommonUtils.resolveRole.                            *)
(*                                                                         *)
(* A member is a record: present (FALSE models null, a direct message),    *)
(* id, admin (holds Administrator), perms (permission flags held), roles   *)
(* (ids of the roles held), guildRoles (guild.roles.cache), me (the bot's  *)
(* own GuildMember: present, admin, perms).                                *)
(* A role resolvable is [form |-> "string" | "object", role |-> id]: a     *)
(* name / id string, or a Role object.                                     *)

NoBot == [present |-> FALSE, admin |-> FALSE, perms |-> {}]

NullMember ==
    [present |-> FALSE, id |-> "none", admin |-> FALSE, perms |-> {},
     roles |-> {}, guildRoles |-> {}, me |-> NoBot]

\* a variant without the Administrator override
hasPermissionNoOverride(member, perm) ==
    IF ~member.present THEN FALSE
    ELSE perm \in member.perms

\* PermissionUtils.hasPermission(member, perm)
hasPermission(member, perm) ==
    IF ~member.present THEN FALSE
    ELSE IF member.admin THEN TRUE
    ELSE perm \in member.perms

\* CommonUtils.resolveRole(guild, roleResolvable): the role id, or "null"
resolveRole(guildRoles, roleResolvable) ==
    IF roleResolvable.form = "object" THEN roleResolvable.role
    ELSE IF roleResolvable.role \in guildRoles THEN roleResolvable.role
    ELSE "null"

\* PermissionUtils.hasRole(member, roleResolvable)
hasRole(member, roleResolvable) ==
    IF ~member.present THEN FALSE
    ELSE LET role == resolveRole(member.guildRoles, roleResolvable)
         IN  IF role # "null" THEN role \in member.roles ELSE FALSE

----------------------------------------------------------------------------
(* CommandHandler._checkPermissions.                                       *)
(* The result is [r |-> "allow" | "deny" | "throw", why, names]: null, an  *)
(* error message (why says which one, names what it lists), or an          *)
(* exception thrown out of the method.                                     *)

Allow == [r |-> "allow", why |-> "none", names |-> <<>>]

Deny(why, names) == [r |-> "deny", why |-> why, names |-> names]

Throw(why) == [r |-> "throw", why |-> why, names |-> <<>>]

\* command.permissions.filter(perm => !PermissionUtils.hasPermission(m, perm))
missingPerms(perms, m) ==
    LET lacks(p) == ~hasPermission(m, p) IN SelectSeq(perms, lacks)

\* CommandHandler.js names CommonUtils without importing it (its imports are
\* fs, path, discord.js, PermissionUtils and Logger): evaluating the
\* identifier raises a ReferenceError.
CommonUtilsInScope == FALSE

\* The roles denial: command.roles.map(r => typeof r === 'string' ?
\* CommonUtils.resolveRole(member.guild, r) : r), then the names joined.
roleDenial(command, member) ==
    IF (\E i \in 1..Len(command.roles) : command.roles[i].form = "string")
       /\ ~CommonUtilsInScope
    THEN Throw("ReferenceError")
    ELSE Deny("roles", [i \in 1..Len(command.roles) |-> command.roles[i].role])

\* a variant that lets the command through when members.me is null
botCheckSkipsUnverified(command, member) ==
    IF ~member.me.present THEN Allow
    ELSE LET missingBotPerms ==
                 missingPerms(command.botPermissions,
                              [present |-> TRUE, admin |-> member.me.admin,
                               perms |-> member.me.perms])
         IN  IF Len(missingBotPerms) > 0
             THEN Deny("botPerms", missingBotPerms)
             ELSE Allow

\* The bot-permission step of _checkPermissions (member is present here).
botCheck(command, member) ==
    IF ~member.me.present THEN Deny("botUnverified", <<>>)
    ELSE LET missingBotPerms ==
                 missingPerms(command.botPermissions,
                              [present |-> TRUE, admin |-> member.me.admin,
                               perms |-> member.me.perms])
         IN  IF Len(missingBotPerms) > 0
             THEN Deny("botPerms", missingBotPerms)
             ELSE Allow

\* options.ownerIds
ownerIds == {"u1"}

\* a variant that holds a user without a guild to the required permissions
checkPermissionsEverywhere(command, member) ==
    IF command.guildOnly /\ ~member.present
    THEN Deny("guildOnly", <<>>)
    ELSE IF command.devOnly /\ ~(member.present /\ member.id \in ownerIds)
    THEN Deny("ownerOnly", <<>>)
    ELSE IF ~member.present /\ Len(command.permissions) > 0
    THEN Deny("userPerms", command.permissions)
    ELSE IF member.present /\ Len(command.permissions) > 0
            /\ Len(missingPerms(command.permissions, member)) > 0
    THEN Deny("userPerms", missingPerms(command.permissions, member))
    ELSE IF member.present /\ Len(command.roles) > 0
            /\ ~(\E i \in 1..Len(command.roles) : hasRole(member, command.roles[i]))
    THEN roleDenial(command, member)
    ELSE IF member.present /\ Len(command.botPermissions) > 0
    THEN botCheck(command, member)
    ELSE Allow

checkPermissions(command, member) ==
    IF command.guildOnly /\ ~member.present
    THEN Deny("guildOnly", <<>>)
    ELSE IF command.devOnly /\ ~(member.present /\ member.id \in ownerIds)
    THEN Deny("ownerOnly", <<>>)
    ELSE IF member.present /\ Len(command.permissions) > 0
            /\ Len(missingPerms(command.permissions, member)) > 0
    THEN Deny("userPerms", missingPerms(command.permissions, member))
    ELSE IF member.present /\ Len(command.roles) > 0
            /\ ~(\E i \in 1..Len(command.roles) : hasRole(member, command.roles[i]))
    THEN roleDenial(command, member)
    ELSE IF member.present /\ Len(command.botPermissions) > 0
    THEN botCheck(command, member)
    ELSE Allow

----------------------------------------------------------------------------
(* Configuration of the model: the CommandHandler options, the guild, the  *)
(* command files on disk and the component handlers the bot binds.         *)

\* bounds of the model
MaxArrivals == 3

MaxTicks == 2

\* cooldownDuration * 1000: seconds to milliseconds
MsPerSecond == 1000

Users == {"u1", "u2"}

\* options.prefix
prefix == <<"!">>

\* names and customIds, as sequences of characters
N_kick == <<"k", "i", "c", "k">>

N_mod == <<"m", "o", "d">>

N_ping == <<"p", "i", "n", "g">>

N_p == <<"p">>

N_zzz == <<"z">>

\* A command object, as require(file) gives it. hasExecute says whether it
\* exports an execute function; hasData whether it has a data builder (with
\* data.name = name and data.type = dataType); type is set by loadCommands.
Command(name, hasData, dataType, cooldown, guildOnly, devOnly, permissions, roles, botPermissions, aliases, filePath) ==
    [name |-> name, hasExecute |-> TRUE, hasData |-> hasData, dataType |-> dataType,
     cooldown |-> cooldown, guildOnly |-> guildOnly, devOnly |-> devOnly,
     permissions |-> permissions, roles |-> roles, botPermissions |-> botPermissions,
     aliases |-> aliases, filePath |-> filePath, type |-> "unset"]

\* the local `command` of a listener before / without a match
NoCommand ==
    [Command(<<>>, FALSE, "none", 0, FALSE, FALSE, <<>>, <<>>, <<>>, <<>>, "none")
        EXCEPT !.hasExecute = FALSE, !.type = "NONE"]

\* The command directory of the bot under study (after the README's layout):
\* a moderation slash command with a cooldown and a required permission, a
\* slash command reserved to a role given by name, and a legacy command with
\* an alias that only the owner may use.
CommandFiles ==
    << Command(N_kick, TRUE, "ChatInput", 2, TRUE, FALSE, <<"KickMembers">>, <<>>,
               <<>>, <<>>, "kick.js"),
       Command(N_mod, TRUE, "undefined", -1, FALSE, FALSE, <<>>,
               <<[form |-> "string", role |-> "r1"]>>, <<>>, <<>>, "mod.js"),
       Command(N_ping, FALSE, "none", 0, FALSE, TRUE, <<>>, <<>>, <<>>, <<N_p>>,
               "ping.js") >>

\* The guild members behind the users: u1 may kick and holds role r1.
MemberOf(user) ==
    [present |-> TRUE, id |-> user, admin |-> FALSE,
     perms |-> IF user = "u1" THEN {"KickMembers"} ELSE {},
     roles |-> IF user = "u1" THEN {"r1"} ELSE {},
     guildRoles |-> {"r1"},
     me |-> [present |-> TRUE, admin |-> FALSE, perms |-> {"KickMembers"}]]

----------------------------------------------------------------------------
(* CommandHandler.loadCommands: the registry as a function from names and  *)
(* aliases to command objects (a Collection; set overwrites).              *)

MapSet(m, k, v) == [x \in (DOMAIN m) \cup {k} |-> IF x = k THEN v ELSE m[x]]

EmptyMap == [x \in {} |-> NoCommand]

RECURSIVE registerAliasesOverwrites(_, _, _, _)
\* a variant that sets every alias, taken or not
registerAliasesOverwrites(cmds, command, aliases, i) ==
    IF i > Len(aliases) THEN cmds
    ELSE registerAliasesOverwrites(MapSet(cmds, aliases[i], command),
                                   command, aliases, i + 1)

RECURSIVE registerAliases(_, _, _, _)
\* command.aliases.forEach(alias => ...): an alias already in the Collection
\* is skipped, any other points at the same command object
registerAliases(cmds, command, aliases, i) ==
    IF i > Len(aliases) THEN cmds
    ELSE registerAliases(
             IF aliases[i] \in DOMAIN cmds THEN cmds
             ELSE MapSet(cmds, aliases[i], command),
             command, aliases, i + 1)

\* a variant that keeps the command already registered under the name
registerNameKeepsFirst(cmds, commandName, command) ==
    IF commandName \in DOMAIN cmds THEN cmds ELSE MapSet(cmds, commandName, command)

\* "Register the main command name": this.commands.set(commandName, command)
registerName(cmds, commandName, command) == MapSet(cmds, commandName, command)

\* the body of the for loop over the command files, for one file
registerFile(cmds, file) ==
    IF ~file.hasExecute THEN cmds
    ELSE IF file.hasData
    THEN IF file.dataType \in {"ChatInput", "undefined", "User", "Message"}
         THEN registerName(cmds, file.name,
                           [file EXCEPT !.type =
                                CASE file.dataType = "User" -> USER
                                  [] file.dataType = "Message" -> MESSAGE
                                  [] OTHER -> SLASH])
         ELSE cmds
    ELSE IF Len(prefix) > 0 /\ Len(file.name) > 0
    THEN LET command == [file EXCEPT !.type = LEGACY]
         IN  registerAliases(registerName(cmds, file.name, command), command,
                             file.aliases, 1)
    ELSE cmds

\* a logger call of the loop: what it reports, about which key, for which file
RegEntry(what, key, file) == [what |-> what, key |-> key, file |-> file]

\* the warning of the name registration
nameLog(cmds, file) ==
    IF file.name \in DOMAIN cmds
    THEN <<RegEntry("nameConflict", file.name, file.filePath)>>
    ELSE <<>>

RECURSIVE aliasLog(_, _, _)
\* the logger calls of command.aliases.forEach: a warning for an alias that
\* is skipped, a debug line for one that is registered
aliasLog(cmds, file, i) ==
    IF i > Len(file.aliases) THEN <<>>
    ELSE IF file.aliases[i] \in DOMAIN cmds
    THEN <<RegEntry("aliasConflict", file.aliases[i], file.filePath)>>
         \o aliasLog(cmds, file, i + 1)
    ELSE <<RegEntry("alias", file.aliases[i], file.filePath)>>
         \o aliasLog(MapSet(cmds, file.aliases[i], file), file, i + 1)

\* the logger calls of the loop body for one file
fileLog(cmds, file) ==
    IF ~file.hasExecute THEN <<RegEntry("skip", <<>>, file.filePath)>>
    ELSE IF file.hasData
    THEN IF file.dataType \in {"ChatInput", "undefined", "User", "Message"}
         THEN nameLog(cmds, file)
         ELSE <<RegEntry("skip", <<>>, file.filePath)>>
    ELSE IF Len(prefix) > 0 /\ Len(file.name) > 0
    THEN nameLog(cmds, file) \o aliasLog(MapSet(cmds, file.name, file), file, 1)
    ELSE <<RegEntry("skip", <<>>, file.filePath)>>

RECURSIVE loadFiles(_, _, _)
loadFiles(cmds, files, i) ==
    IF i > Len(files) THEN cmds
    ELSE loadFiles(registerFile(cmds, files[i]), files, i + 1)

\* this.commands.clear(), then every file in turn
loadCommands(files) == loadFiles(EmptyMap, files, 1)

----------------------------------------------------------------------------
(* CommandHandler.registerSlashCommands.                                   *)

\* ApplicationCommandType of a data builder (ChatInput when undefined)
ApiType(dataType) ==
    CASE dataType = "User" -> 2
      [] dataType = "Message" -> 3
      [] OTHER -> 1

\* cmd.data.toJSON(): what the API is sent for a command
toJSON(cmd) == [name |-> cmd.name, type |-> ApiType(cmd.dataType)]

RECURSIVE dataOfKeys(_, _)
dataOfKeys(cmds, keys) ==
    IF keys = {} THEN EmptyBag
    ELSE LET k == CHOOSE x \in keys : TRUE
             rest == dataOfKeys(cmds, keys \ {k})
         IN  rest (+) SetToBag({toJSON(cmds[k])})

\* a variant that maps every entry of the Collection
applicationCommandsDataUnfiltered(cmds) == dataOfKeys(cmds, DOMAIN cmds)

\* this.commands.filter(cmd => cmd.type !== CommandType.LEGACY && cmd.data)
\*     .map(cmd => cmd.data.toJSON()), as a bag
applicationCommandsData(cmds) ==
    dataOfKeys(cmds, {k \in DOMAIN cmds : cmds[k].type # LEGACY /\ cmds[k].hasData})

\* the constructor: options.registerGlobally ?? !this.devGuildId
registerGloballyOf(options) ==
    IF options.registerGlobally = "unset" THEN options.devGuildId = ""
    ELSE options.registerGlobally = "true"

\* the route of the PUT: the commands of the development guild, or the
\* global ones
registrationRoute(options) ==
    IF options.devGuildId # "" /\ ~registerGloballyOf(options)
    THEN [scope |-> "guild", guild |-> options.devGuildId]
    ELSE [scope |-> "global", guild |-> ""]

\* registerSlashCommands up to its await: what it logs, and the call it makes
pushStart(cmds, options) ==
    LET applicationData == applicationCommandsData(cmds) IN
    IF BagCardinality(applicationData) = 0
    THEN [pc |-> "done", log |-> <<"info:none">>, calls |-> <<>>]
    ELSE IF ~options.token
    THEN [pc |-> "done", log |-> <<"error:token">>, calls |-> <<>>]
    ELSE IF ~options.applicationId
    THEN [pc |-> "done", log |-> <<"error:applicationId">>, calls |-> <<>>]
    ELSE [pc |-> "awaiting", log |-> <<"info:registering">>,
          calls |-> <<[route |-> registrationRoute(options),
                       body |-> applicationData]>>]

\* what the platform holds once a PUT of a scope's commands has succeeded:
\* the body replaces every command of that scope
remotePut(remote, call) == [remote EXCEPT ![call.route.scope] = call.body]

\* the PUT resolves, or rejects: the catch block names locationDescription,
\* a `let` of the try block, so the catch itself throws a ReferenceError and
\* the promise of registerSlashCommands rejects
pushSettled(ok) ==
    IF ok THEN [pc |-> "done", log |-> <<"info:registered">>]
    ELSE [pc |-> "rejected", log |-> <<>>]

----------------------------------------------------------------------------
(* CommandHandler._handleCooldown(command, userId) at time t, on the store *)
(* (users with a Collection, per-user entries) and the pending timeouts.   *)
(* timeLeft = 0 stands for the `false` the method returns.                 *)

Timer(userId, id, due) == [user |-> userId, id |-> id, due |-> due]

\* a variant that stamps the entry and schedules the removal on every call,
\* blocked or not
handleCooldownRestamps(command, userId, t, users, store, tm) ==
    LET cooldownDuration == command.cooldown IN
    IF cooldownDuration <= 0
    THEN [timeLeft |-> 0, users |-> users, store |-> store, timers |-> tm]
    ELSE LET userCooldowns == store[userId]
             commandIdentifier == command.name
             stamp == IF commandIdentifier \in DOMAIN userCooldowns
                      THEN userCooldowns[commandIdentifier] ELSE 0
             expirationTime == stamp + cooldownDuration * MsPerSecond
         IN  [timeLeft |-> IF t < expirationTime
                           THEN (expirationTime - t) \div MsPerSecond ELSE 0,
              users |-> users \cup {userId},
              store |-> [store EXCEPT ![userId] =
                            MapSet(userCooldowns, commandIdentifier, t)],
              timers |-> tm (+) SetToBag({Timer(userId, commandIdentifier,
                                 t + cooldownDuration * MsPerSecond)})]

\* a variant that makes sure of the user's Collection before it looks at
\* the duration
handleCooldownContainerFirst(command, userId, t, users, store, tm) ==
    LET cooldownDuration == command.cooldown IN
    IF cooldownDuration <= 0
    THEN [timeLeft |-> 0, users |-> users \cup {userId}, store |-> store,
          timers |-> tm]
    ELSE LET userCooldowns == store[userId]
             commandIdentifier == command.name
             stamp == IF commandIdentifier \in DOMAIN userCooldowns
                      THEN userCooldowns[commandIdentifier] ELSE 0
             expirationTime == stamp + cooldownDuration * MsPerSecond
         IN  IF t < expirationTime
             THEN [timeLeft |-> (expirationTime - t) \div MsPerSecond,
                   users |-> users \cup {userId}, store |-> store, timers |-> tm]
             ELSE [timeLeft |-> 0,
                   users |-> users \cup {userId},
                   store |-> [store EXCEPT ![userId] =
                                 MapSet(userCooldowns, commandIdentifier, t)],
                   timers |-> tm (+) SetToBag({Timer(userId, commandIdentifier,
                                      t + cooldownDuration * MsPerSecond)})]

\* a cooldown of 0 also stands for a command file without a cooldown:
\* !cooldownDuration holds of undefined as it does of 0
handleCooldown(command, userId, t, users, store, tm) ==
    LET cooldownDuration == command.cooldown IN
    IF cooldownDuration <= 0
    THEN [timeLeft |-> 0, users |-> users, store |-> store, timers |-> tm]
    ELSE LET userCooldowns == store[userId]
             commandIdentifier == command.name
             stamp == IF commandIdentifier \in DOMAIN userCooldowns
                      THEN userCooldowns[commandIdentifier] ELSE 0
             expirationTime == stamp + cooldownDuration * MsPerSecond
         IN  IF t < expirationTime
             THEN [timeLeft |-> (expirationTime - t) \div MsPerSecond,
                   users |-> users \cup {userId}, store |-> store, timers |-> tm]
             ELSE [timeLeft |-> 0,
                   users |-> users \cup {userId},
                   store |-> [store EXCEPT ![userId] =
                                 MapSet(userCooldowns, commandIdentifier, t)],
                   timers |-> tm (+) SetToBag({Timer(userId, commandIdentifier,
                                      t + cooldownDuration * MsPerSecond)})]

----------------------------------------------------------------------------
(* The legacy message parser of the messageCreate listener.                *)

Whitespace == {" ", "\t", "\n"}

\* String.prototype.toLowerCase on the letters the model uses
LowerChar(c) ==
    CASE c = "P" -> "p"
      [] c = "K" -> "k"
      [] OTHER -> c

toLowerCase(s) == [i \in 1..Len(s) |-> LowerChar(s[i])]

RECURSIVE trimStart(_)
trimStart(s) ==
    IF Len(s) > 0 /\ Head(s) \in Whitespace THEN trimStart(Tail(s)) ELSE s

RECURSIVE trimEnd(_)
trimEnd(s) ==
    IF Len(s) > 0 /\ s[Len(s)] \in Whitespace
    THEN trimEnd(SubSeq(s, 1, Len(s) - 1)) ELSE s

\* String.prototype.trim
trim(s) == trimEnd(trimStart(s))

RECURSIVE splitFrom(_, _, _, _)
splitFrom(s, i, cur, out) ==
    IF i > Len(s) THEN Append(out, cur)
    ELSE IF s[i] = " "
    THEN IF i > 1 /\ s[i - 1] = " "
         THEN splitFrom(s, i + 1, cur, out)
         ELSE splitFrom(s, i + 1, <<>>, Append(out, cur))
    ELSE splitFrom(s, i + 1, Append(cur, s[i]), out)

\* s.split(/ +/): the pieces between runs of spaces
splitSpaces(s) == splitFrom(s, 1, <<>>, <<>>)

\* message.content.slice(this.prefix.length).trim().split(/ +/)
parseArgs(content) == splitSpaces(trim(Slice(content, Len(prefix))))

----------------------------------------------------------------------------
(* InteractionManager: the handler table (a Collection in insertion order) *)
(* as a sequence of [key, type, handler].                                  *)

ComponentTypes == {"button", "select", "modal"}

KeyIndex(table, key) ==
    IF \E i \in 1..Len(table) : table[i].key = key
    THEN CHOOSE i \in 1..Len(table) : table[i].key = key
    ELSE 0

\* the two argument checks of registerHandler: whether it throws
registerHandlerThrows(type, isFunction) ==
    ~isFunction \/ type \notin ComponentTypes

\* a variant that stores the entry before it validates the arguments
registerHandlerStoresFirst(table, customId, type, handler, isFunction) ==
    LET entry == [key |-> customId, type |-> type, handler |-> handler]
        i == KeyIndex(table, customId)
    IN  IF i = 0 THEN Append(table, entry) ELSE [table EXCEPT ![i] = entry]

\* this.handlers.set(customId, { type, handler }) after the two argument checks;
\* isFunction says whether typeof handler === 'function'
registerHandler(table, customId, type, handler, isFunction) ==
    IF ~isFunction \/ type \notin ComponentTypes THEN table
    ELSE LET entry == [key |-> customId, type |-> type, handler |-> handler]
             i == KeyIndex(table, customId)
         IN  IF i = 0 THEN Append(table, entry) ELSE [table EXCEPT ![i] = entry]

\* the for loop of _findHandler: the first key ending in '*' of this type
\* whose prefix starts customId
RECURSIVE prefixScan(_, _, _, _)
prefixScan(table, customId, type, i) ==
    IF i > Len(table) THEN "null"
    ELSE IF EndsWithChar(table[i].key, "*") /\ table[i].type = type
            /\ StartsWith(customId, SubSeq(table[i].key, 1, Len(table[i].key) - 1))
    THEN table[i].handler
    ELSE prefixScan(table, customId, type, i + 1)

\* InteractionManager._findHandler(customId, type): a handler, or "null"
findHandler(table, customId, type) ==
    LET i == KeyIndex(table, customId) IN
    IF i # 0 /\ table[i].type = type THEN table[i].handler
    ELSE prefixScan(table, customId, type, 1)

\* the handlers the bot binds at start-up
C_1 == <<"c", "1">>

C_2 == <<"c", "2">>

C_star == <<"c", "*">>

BoundHandlers ==
    registerHandler(registerHandler(<<>>, C_1, "button", "h1", TRUE),
                    C_star, "button", "h2", TRUE)

----------------------------------------------------------------------------
(* The events. Each listener run is a record:                              *)
(*   pc       "free", "replying" (awaiting a reply it sent), "executing"   *)
(*            (awaiting the handler), "fallback" (awaiting the failure     *)
(*            reply), "done" (the listener returned), "crashed" (the       *)
(*            listener's promise rejected: an unhandled rejection)         *)
(*   kind     what the event is; user, name: who sent it, what it names    *)
(*   command  the listener's local `command`; handler: what was invoked    *)
(*   cd, timeLeft, armed: what _handleCooldown did; since: how long ago    *)
(*            the same user last passed the check for the same command     *)
(*   perm     what _checkPermissions returned                              *)
(*   replies  reply attempts of the pre-execution stages; replyFor: which  *)
(*   fallbacks, verb: attempts to send the failure message, and how;       *)
(*            fallbackFailed: that attempt was rejected                    *)
(*   log      the logger calls of this run; trace: its stages in order     *)

\* the listener runs that can be in flight at once
Slots == {1, 2}

CommandKinds == {SLASH, USER, MESSAGE}

ComponentKinds == {"BUTTON", "SELECT", "MODAL"}

InteractionKinds == CommandKinds \cup ComponentKinds \cup {"AUTOCOMPLETE"}

TypeOfKind(kind) ==
    CASE kind = "BUTTON" -> "button"
      [] kind = "SELECT" -> "select"
      [] kind = "MODAL" -> "modal"
      [] OTHER -> "Unknown"

NotChecked == [r |-> "none", why |-> "none", names |-> <<>>]

FreeEvent ==
    [pc |-> "free", kind |-> "none", user |-> "none", name |-> <<>>,
     args |-> <<>>, command |-> NoCommand, handler |-> "none",
     cd |-> "none", timeLeft |-> 0, since |-> -1, armed |-> FALSE,
     perm |-> NotChecked, replies |-> 0, replyFor |-> "none",
     fallbacks |-> 0, verb |-> "none", fallbackFailed |-> FALSE,
     invoked |-> FALSE, threw |-> FALSE, acked |-> FALSE, log |-> <<>>,
     trace |-> <<>>, latest |-> FALSE, afterFault |-> FALSE]

Log(level, what, name) == [level |-> level, what |-> what, name |-> name]

\* what a listener's synchronous part leaves behind
Outcome(rec, users, store, tm) ==
    [rec |-> rec, users |-> users, store |-> store, timers |-> tm]

\* how long ago (user, command) last passed the cooldown check, or -1
SinceReady(command, userId, t) ==
    IF command.cooldown > 0 /\ command.name \in DOMAIN lastReady[userId]
    THEN t - lastReady[userId][command.name]
    ELSE -1

\* the reply to a blocked user: "Please wait ... more second(s)"
blockedReply(checked, c) ==
    Outcome([checked EXCEPT !.pc = "replying", !.cd = "Blocked",
                            !.timeLeft = c.timeLeft,
                            !.replyFor = "cooldown", !.replies = @ + 1,
                            !.trace = @ \o <<"reply">>],
            c.users, c.store, c.timers)

\* a variant whose denial branch does not return: the reply is sent and the
\* handler is called all the same
permissionStageExecutesAnyway(checked, command, member, c) ==
    LET permissionError == checkPermissions(command, member)
        gated == [checked EXCEPT !.cd = "Ready", !.perm = permissionError,
                                 !.trace = @ \o <<"permission">>]
        replied == IF permissionError.r = "deny"
                   THEN [gated EXCEPT !.replyFor = "permission", !.replies = @ + 1,
                                      !.trace = @ \o <<"reply">>]
                   ELSE gated
    IN  IF permissionError.r = "throw"
        THEN Outcome([gated EXCEPT !.pc = "crashed"], c.users, c.store, c.timers)
        ELSE Outcome([replied EXCEPT !.pc = "executing", !.invoked = TRUE,
                                     !.handler = command.filePath,
                                     !.log = Append(@, Log("info", "executing",
                                                           command.name)),
                                     !.trace = @ \o <<"execute">>],
                     c.users, c.store, c.timers)

\* "2. Permission Check" and "--- Execute Command ---": a denial is replied
\* with, an exception of _checkPermissions leaves the listener, and
\* otherwise command.execute is called
permissionStage(checked, command, member, c) ==
    LET permissionError == checkPermissions(command, member)
        gated == [checked EXCEPT !.cd = "Ready", !.perm = permissionError,
                                 !.trace = @ \o <<"permission">>]
    IN  IF permissionError.r = "throw"
        THEN Outcome([gated EXCEPT !.pc = "crashed"], c.users, c.store, c.timers)
        ELSE IF permissionError.r = "deny"
        THEN Outcome([gated EXCEPT !.pc = "replying", !.replyFor = "permission",
                                   !.replies = @ + 1,
                                   !.trace = @ \o <<"reply">>],
                     c.users, c.store, c.timers)
        ELSE Outcome([gated EXCEPT !.pc = "executing", !.invoked = TRUE,
                                   !.handler = command.filePath,
                                   !.log = Append(@, Log("info", "executing",
                                                         command.name)),
                                   !.trace = @ \o <<"execute">>],
                     c.users, c.store, c.timers)

\* "--- Pre-Execution Checks ---", the same in both listeners: the cooldown
\* check first, then the permission check and the handler
preExecution(base, command, userId, member, t, users, store, tm) ==
    LET c == handleCooldown(command, userId, t, users, store, tm)
        checked == [base EXCEPT !.command = command,
                                !.since = SinceReady(command, userId, t),
                                !.armed = (c.timers # tm),
                                !.trace = @ \o <<"cooldown">>]
    IN  IF c.timeLeft > 0
        THEN blockedReply(checked, c)
        ELSE permissionStage(checked, command, member, c)

\* an interaction that names no command of its kind: logged, and replied to
commandNotFound(resolved, name) ==
    [resolved EXCEPT !.pc = "replying", !.replyFor = "notfound", !.replies = @ + 1,
                     !.log = Append(@, Log("error", "unknown", name)),
                     !.trace = @ \o <<"reply">>]

\* a message that names no legacy command: the listener returns
legacyNotFound(resolved) == [resolved EXCEPT !.pc = "done"]

\* a variant that only warns
componentNotFoundSilent(resolved, customId) ==
    [resolved EXCEPT !.pc = "done",
                     !.log = Append(@, Log("warn", "nohandler", customId))]

\* a component with no handler bound: a warning, and a reply (replied and
\* deferred are still false when the listener runs)
componentNotFound(resolved, customId) ==
    [resolved EXCEPT !.pc = "replying", !.replyFor = "notfound", !.replies = @ + 1,
                     !.log = Append(@, Log("warn", "nohandler", customId)),
                     !.trace = @ \o <<"reply">>]

\* a variant that takes whatever the registry holds under the name
commandListenerAnyKind(kind, name, user, member, t, cmds, users, store, tm) ==
    LET base == [FreeEvent EXCEPT !.kind = kind, !.user = user, !.name = name,
                                  !.trace = <<"classify">>]
    IN  IF kind \notin CommandKinds
        THEN Outcome([base EXCEPT !.pc = "done"], users, store, tm)
        ELSE LET resolved == [base EXCEPT !.trace = @ \o <<"resolve">>] IN
             IF name \notin DOMAIN cmds
             THEN Outcome(commandNotFound(resolved, name), users, store, tm)
             ELSE preExecution(resolved, cmds[name], user, member, t, users, store, tm)

\* the interactionCreate listener of CommandHandler, up to its first await
commandListener(kind, name, user, member, t, cmds, users, store, tm) ==
    LET base == [FreeEvent EXCEPT !.kind = kind, !.user = user, !.name = name,
                                  !.trace = <<"classify">>]
    IN  IF kind \notin CommandKinds
        THEN Outcome([base EXCEPT !.pc = "done"], users, store, tm)
        ELSE LET resolved == [base EXCEPT !.trace = @ \o <<"resolve">>] IN
             IF name \notin DOMAIN cmds \/ cmds[name].type # kind
             THEN Outcome(commandNotFound(resolved, name), users, store, tm)
             ELSE preExecution(resolved, cmds[name], user, member, t, users, store, tm)

\* a variant that answers bot accounts
messageListenerAnswersBots(content, user, authorBot, inGuild, t, cmds, users, store, tm) ==
    LET base == [FreeEvent EXCEPT !.kind = "TEXT", !.user = user,
                                  !.trace = <<"classify">>]
        args == parseArgs(content)
        commandName == toLowerCase(Head(args))
        resolved == [base EXCEPT !.kind = LEGACY, !.name = commandName,
                                 !.args = Tail(args),
                                 !.trace = @ \o <<"resolve">>]
    IN  IF ~inGuild \/ ~StartsWith(content, prefix)
        THEN Outcome([base EXCEPT !.pc = "done"], users, store, tm)
        ELSE IF Len(commandName) = 0
        THEN Outcome([base EXCEPT !.pc = "done"], users, store, tm)
        ELSE IF commandName \notin DOMAIN cmds \/ cmds[commandName].type # LEGACY
        THEN Outcome(legacyNotFound(resolved), users, store, tm)
        ELSE preExecution(resolved, cmds[commandName], user, MemberOf(user), t,
                          users, store, tm)

\* the messageCreate listener of CommandHandler, up to its first await
messageListener(content, user, authorBot, inGuild, t, cmds, users, store, tm) ==
    LET base == [FreeEvent EXCEPT !.kind = "TEXT", !.user = user,
                                  !.trace = <<"classify">>]
        args == parseArgs(content)
        commandName == toLowerCase(Head(args))
        resolved == [base EXCEPT !.kind = LEGACY, !.name = commandName,
                                 !.args = Tail(args),
                                 !.trace = @ \o <<"resolve">>]
    IN  IF authorBot \/ ~inGuild \/ ~StartsWith(content, prefix)
        THEN Outcome([base EXCEPT !.pc = "done"], users, store, tm)
        ELSE IF Len(commandName) = 0
        THEN Outcome([base EXCEPT !.pc = "done"], users, store, tm)
        ELSE IF commandName \notin DOMAIN cmds \/ cmds[commandName].type # LEGACY
        THEN Outcome(legacyNotFound(resolved), users, store, tm)
        ELSE preExecution(resolved, cmds[commandName], user, MemberOf(user), t,
                          users, store, tm)

\* the interactionCreate listener of InteractionManager, up to its first await
componentListener(kind, customId, user, table) ==
    LET base == [FreeEvent EXCEPT !.kind = kind, !.user = user, !.name = customId,
                                  !.trace = <<"classify">>]
        handlerType == TypeOfKind(kind)
        handler == findHandler(table, customId, handlerType)
        resolved == [base EXCEPT !.trace = @ \o <<"resolve">>]
    IN  IF kind \notin ComponentKinds
        THEN [base EXCEPT !.pc = "done"]
        ELSE IF handler # "null"
        THEN [resolved EXCEPT !.pc = "executing", !.invoked = TRUE,
                              !.handler = handler,
                              !.log = Append(@, Log("info", "executing", customId)),
                              !.trace = @ \o <<"execute">>]
        ELSE componentNotFound(resolved, customId)

\* the name the logger calls of a run carry: commandName of an interaction
\* (its customId for a component), command.name of a legacy command
logName(rec) == IF rec.kind = LEGACY THEN rec.command.name ELSE rec.name

\* a reply of the pre-execution stages resolves (ok) or rejects: the .catch
\* of the cooldown and permission replies logs, that of not-found is empty
onReplySettled(rec, ok) ==
    [rec EXCEPT !.pc = "done",
                !.log = IF ~ok /\ rec.replyFor # "notfound"
                        THEN Append(@, Log("error", "replyFailed", logName(rec)))
                        ELSE @]

\* a variant that always sends the failure message with reply
onHandlerSettledAlwaysReplies(rec, ok, acked) ==
    IF ok
    THEN [rec EXCEPT !.pc = "done", !.acked = acked]
    ELSE [rec EXCEPT !.pc = "fallback", !.acked = acked, !.threw = TRUE,
                     !.log = Append(@, Log("error", "fault", logName(rec))),
                     !.fallbacks = @ + 1,
                     !.verb = "reply",
                     !.trace = @ \o <<"report">>]

\* a variant whose catch sends the failure message without logging
onHandlerSettledUnlogged(rec, ok, acked) ==
    IF ok
    THEN [rec EXCEPT !.pc = "done", !.acked = acked]
    ELSE [rec EXCEPT !.pc = "fallback", !.acked = acked, !.threw = TRUE,
                     !.fallbacks = @ + 1,
                     !.verb = IF acked THEN "followUp" ELSE "reply",
                     !.trace = @ \o <<"report">>]

\* the awaited handler returns, or throws / rejects; acked says whether it
\* had replied to or deferred the interaction by then. The catch logs the
\* fault and sends the failure message (followUp or reply; message.reply
\* for a legacy command).
onHandlerSettled(rec, ok, acked) ==
    IF ok
    THEN [rec EXCEPT !.pc = "done", !.acked = acked]
    ELSE [rec EXCEPT !.pc = "fallback", !.acked = acked, !.threw = TRUE,
                     !.log = Append(@, Log("error", "fault", logName(rec))),
                     !.fallbacks = @ + 1,
                     !.verb = IF acked THEN "followUp" ELSE "reply",
                     !.trace = @ \o <<"report">>]

\* a variant without the .catch on the failure message
onFallbackSettledUncaught(rec, ok) ==
    [rec EXCEPT !.pc = IF ok THEN "done" ELSE "crashed", !.fallbackFailed = ~ok]

\* the failure message is sent, or fails: the failure is logged and dropped
onFallbackSettled(rec, ok) ==
    [rec EXCEPT !.pc = "done", !.fallbackFailed = ~ok,
                !.log = IF ok THEN @
                        ELSE Append(@, Log("error", "fallbackFailed", logName(rec)))]

----------------------------------------------------------------------------
(* The dispatcher as a state machine. A listener runs to its first await   *)
(* in one step (JavaScript runs a callback to completion); replies, the    *)
(* handler and the timeouts settle in steps of their own.                  *)

StartTime == 10 * MsPerSecond

EndTime == StartTime + MaxTicks * MsPerSecond

Finished(s) == ev[s].pc \in {"done", "crashed"}

\* the record of a finished run is dropped before the next step is observed
Quiet == \A s \in Slots : ~Finished(s)

\* the record a new event takes: the first free one
NextSlot == CHOOSE s \in Slots : ev[s].pc = "free" /\ \A r \in Slots : r < s => ev[r].pc # "free"

CanArrive == Quiet /\ arrived < MaxArrivals /\ \E s \in Slots : ev[s].pc = "free"

MapDelete(m, k) == [x \in (DOMAIN m) \ {k} |-> m[x]]

\* the names and customIds the events carry
NamesFor(kind) ==
    CASE kind = SLASH -> {N_kick, N_mod, N_zzz}
      [] kind = USER -> {N_kick}
      [] kind = MESSAGE -> {N_zzz}
      [] kind = "BUTTON" -> {C_1, C_2, N_zzz}
      [] kind \in {"SELECT", "MODAL"} -> {C_1}
      [] OTHER -> {<<>>}

\* who sends them: the cooldown and the gate depend on the user only for a
\* command that resolves
UsersFor(kind) == IF kind = SLASH THEN Users ELSE {"u1"}

M_ping == <<"!", "p", "i", "n", "g">>

M_alias == <<"!", "P", " ", " ", "a">>

M_kick == <<"!", "k", "i", "c", "k">>

M_plain == <<"p", "i", "n", "g">>

M_bang == <<"!", " ">>

Contents == {M_ping, M_alias, M_kick, M_plain, M_bang}

\* the listener's outcome becomes the state. Two history fields are kept
\* with the records: latest marks the run that armed its (user, command)
\* last, afterFault a run that was checked when the handler of that latest
\* run had already thrown.
Admit(out) ==
    /\ LET sameKey(r) == /\ ev[r].user = out.rec.user
                          /\ ev[r].command.name = out.rec.command.name
       IN  ev' = [s \in Slots |->
                    IF s = NextSlot
                    THEN [out.rec EXCEPT
                             !.latest = out.rec.armed,
                             !.afterFault =
                                 /\ out.rec.cd # "none"
                                 /\ \E r \in Slots :
                                       ev[r].latest /\ ev[r].threw /\ sameKey(r)]
                    ELSE IF out.rec.armed /\ sameKey(s)
                    THEN [ev[s] EXCEPT !.latest = FALSE]
                    ELSE ev[s]]
    /\ arrived' = arrived + 1
    /\ cooldownUsers' = out.users
    /\ cooldowns' = out.store
    /\ timers' = out.timers
    /\ lastReady' = IF out.rec.armed
                    THEN [lastReady EXCEPT ![out.rec.user] =
                             MapSet(@, out.rec.command.name, now)]
                    ELSE lastReady

NoOptions ==
    [devGuildId |-> "", registerGlobally |-> "unset", token |-> FALSE,
     applicationId |-> FALSE]

\* a platform that holds no command of the application
NoRemote == [global |-> EmptyBag, guild |-> EmptyBag]

\* the registration harness at rest
PushIdle ==
    /\ pCommands = EmptyMap
    /\ pOptions = NoOptions
    /\ pPc = "idle"
    /\ pCalls = <<>>
    /\ pLog = <<>>
    /\ pRemote = NoRemote
    /\ pPut = "none"

NoMessage == [content |-> <<>>, user |-> "none", authorBot |-> FALSE, inGuild |-> FALSE]

\* no listener has run: no record, an empty store, no timeout
NoOutcome == Outcome(FreeEvent, {}, [u \in Users |-> <<>>], EmptyBag)

\* the message intake at rest
MessageIdle ==
    /\ mPrefix = prefix
    /\ mIn = NoMessage
    /\ mOut = NoOutcome

NoFault == [listener |-> "none", name |-> <<>>, filePath |-> "none",
            acked |-> FALSE, error |-> "none"]

NoReport == [log |-> <<>>, verb |-> "none", content |-> "none", ephemeral |-> FALSE]

\* the fault report at rest
FaultIdle ==
    /\ fIn = NoFault
    /\ fOut = NoReport

NoPagination == [fn |-> "none", items |-> 0, itemsPerPage |-> 0, deferred |-> FALSE,
                 defer |-> FALSE, user |-> "none"]

\* the buttons of a message: disabled or not, or no component at all
Buttons(prev, next) == [present |-> TRUE, prev |-> prev, next |-> next]

NoButtons == [present |-> FALSE, prev |-> FALSE, next |-> FALSE]

NotShown == [page |-> -1, components |-> NoButtons]

NoClick == [customId |-> "none", user |-> "none"]

Closed == [pc |-> "idle", first |-> "none", currentPage |-> 0, shown |-> NotShown,
           clicks |-> 0, last |-> NoClick]

\* no pagination has been started
PageIdle ==
    /\ pgIn = NoPagination
    /\ pgState = Closed

NoCall == [key |-> <<>>, type |-> "none", isFunction |-> FALSE, threw |-> FALSE]

\* the handler table harness at rest: new Collection(), no call made
TableIdle ==
    /\ tTable = <<>>
    /\ tBound = <<>>
    /\ tLast = NoCall
    /\ tCalls = 0

\* no load is being followed
RegistryIdle ==
    /\ rFiles = <<>>
    /\ rIdx = 1
    /\ rCommands = EmptyMap
    /\ rLog = <<>>

Init ==
    /\ now = StartTime
    /\ commands = loadCommands(CommandFiles)
    /\ cooldownUsers = {}
    /\ cooldowns = [u \in Users |-> <<>>]
    /\ timers = EmptyBag
    /\ handlers = BoundHandlers
    /\ ev = [s \in Slots |-> FreeEvent]
    /\ arrived = 0
    /\ lastReady = [u \in Users |-> <<>>]
    /\ gUser = "none"
    /\ gCommand = NoCommand
    /\ gMember = NullMember
    /\ gResult = NotChecked
    /\ RegistryIdle
    /\ TableIdle
    /\ PushIdle
    /\ MessageIdle
    /\ FaultIdle
    /\ PageIdle

\* the client emits interactionCreate: both listeners get the interaction
InteractionCreate(kind, name, user, inGuild) ==
    /\ CanArrive
    /\ Admit(IF kind \in ComponentKinds
             THEN Outcome(componentListener(kind, name, user, handlers),
                          cooldownUsers, cooldowns, timers)
             ELSE commandListener(kind, name, user,
                                  IF inGuild THEN MemberOf(user) ELSE NullMember,
                                  now, commands, cooldownUsers, cooldowns, timers))
    /\ UNCHANGED <<now, commands, handlers, benchVars>>

\* the client emits messageCreate (the listener exists: a prefix is set)
MessageCreate(content, user, authorBot, inGuild) ==
    /\ Len(prefix) > 0
    /\ CanArrive
    /\ Admit(messageListener(content, user, authorBot, inGuild, now, commands,
                             cooldownUsers, cooldowns, timers))
    /\ UNCHANGED <<now, commands, handlers, benchVars>>

\* a variant in which a reply settles only when no handler is running
ReplySettlesAfterHandlers(s, ok) ==
    /\ Quiet
    /\ \A r \in Slots : ev[r].pc # "executing"
    /\ ev[s].pc = "replying"
    /\ ev' = [ev EXCEPT ![s] = onReplySettled(@, ok)]
    /\ UNCHANGED <<now, commands, cooldownUsers, cooldowns, timers, handlers,
                   arrived, lastReady, benchVars>>

\* the promise of a pre-execution reply settles
ReplySettles(s, ok) ==
    /\ Quiet
    /\ ev[s].pc = "replying"
    /\ ev' = [ev EXCEPT ![s] = onReplySettled(@, ok)]
    /\ UNCHANGED <<now, commands, cooldownUsers, cooldowns, timers, handlers,
                   arrived, lastReady, benchVars>>

\* the awaited handler settles
HandlerSettles(s, ok, acked) ==
    /\ Quiet
    /\ ev[s].pc = "executing"
    /\ ev[s].kind = LEGACY => ~acked
    /\ ev' = [ev EXCEPT ![s] = onHandlerSettled(@, ok, acked)]
    /\ UNCHANGED <<now, commands, cooldownUsers, cooldowns, timers, handlers,
                   arrived, lastReady, benchVars>>

\* the promise of the failure message settles
FallbackSettles(s, ok) ==
    /\ Quiet
    /\ ev[s].pc = "fallback"
    /\ ev' = [ev EXCEPT ![s] = onFallbackSettled(@, ok)]
    /\ UNCHANGED <<now, commands, cooldownUsers, cooldowns, timers, handlers,
                   arrived, lastReady, benchVars>>

\* time passes. With no timeout pending the store holds no entry (an entry
\* outlives none of its own timeout) and no check reads the clock, so the
\* clock is advanced only while a timeout is pending.
Tick ==
    /\ Quiet
    /\ now < EndTime
    /\ timers # EmptyBag
    /\ now' = now + MsPerSecond
    /\ UNCHANGED <<commands, cooldownUsers, cooldowns, timers, handlers, ev,
                   arrived, lastReady, benchVars>>

\* a timeout of _handleCooldown runs, at or after its delay:
\* userCooldowns.delete(commandIdentifier)
TimerFires(tm) ==
    /\ Quiet
    /\ BagIn(tm, timers)
    /\ tm.due <= now
    /\ cooldowns' = [cooldowns EXCEPT ![tm.user] = MapDelete(@, tm.id)]
    /\ timers' = timers (-) SetToBag({tm})
    /\ UNCHANGED <<now, commands, cooldownUsers, handlers, ev, arrived, lastReady,
                   benchVars>>

\* the record of a finished listener run is dropped
Retire(s) ==
    /\ Finished(s)
    /\ ev' = [ev EXCEPT ![s] = FreeEvent]
    /\ UNCHANGED <<now, commands, cooldownUsers, cooldowns, timers, handlers,
                   arrived, lastReady, benchVars>>

Next ==
    \/ \E kind \in InteractionKinds, inGuild \in BOOLEAN :
          \E name \in NamesFor(kind), user \in UsersFor(kind) :
             InteractionCreate(kind, name, user, inGuild)
    \/ \E content \in Contents, user \in Users, authorBot \in BOOLEAN,
          inGuild \in BOOLEAN : MessageCreate(content, user, authorBot, inGuild)
    \/ \E s \in Slots, ok \in BOOLEAN : ReplySettles(s, ok)
    \/ \E s \in Slots, ok \in BOOLEAN, acked \in BOOLEAN : HandlerSettles(s, ok, acked)
    \/ \E s \in Slots, ok \in BOOLEAN : FallbackSettles(s, ok)
    \/ Tick
    \/ \E tm \in BagToSet(timers) : TimerFires(tm)
    \/ \E s \in Slots : Retire(s)

Spec == Init /\ [][Next]_vars

----------------------------------------------------------------------------
(* Reloading under load: the dispatcher with a few events, and             *)
(* loadCommands() called again at any moment between two callbacks.        *)

\* the command directory after an edit: kick.js and mod.js are gone, ping
\* has become a slash command
EditedFiles ==
    << Command(N_ping, TRUE, "ChatInput", 0, FALSE, FALSE, <<>>, <<>>, <<>>, <<>>,
               "ping2.js") >>

ReloadDirectories == {CommandFiles, EditedFiles}

\* a variant that yields to the dispatcher after this.commands.clear()
ReloadYieldsAfterClear(files) ==
    /\ Quiet
    /\ commands' = EmptyMap
    /\ UNCHANGED <<now, cooldownUsers, cooldowns, timers, handlers, ev, arrived,
                   lastReady, benchVars>>

\* loadCommands() is called again: it runs from this.commands.clear() to
\* its last file without an await, as one callback
Reload(files) ==
    /\ Quiet
    /\ commands' = loadCommands(files)
    /\ UNCHANGED <<now, cooldownUsers, cooldowns, timers, handlers, ev, arrived,
                   lastReady, benchVars>>

ReloadNext ==
    \/ \E name \in {N_kick, N_ping} : InteractionCreate(SLASH, name, "u1", TRUE)
    \/ MessageCreate(M_ping, "u1", FALSE, TRUE)
    \/ \E s \in Slots, ok \in BOOLEAN : ReplySettles(s, ok)
    \/ \E s \in Slots, ok \in BOOLEAN, acked \in BOOLEAN : HandlerSettles(s, ok, acked)
    \/ \E s \in Slots, ok \in BOOLEAN : FallbackSettles(s, ok)
    \/ Tick
    \/ \E tm \in BagToSet(timers) : TimerFires(tm)
    \/ \E s \in Slots : Retire(s)
    \/ \E files \in ReloadDirectories : Reload(files)

SpecReload == Init /\ [][ReloadNext]_vars

\* The same system with what the event loop and the platform guarantee: a
\* pending reply or failure message settles, and a finished callback
\* returns. Nothing makes a command's execute() settle; the handlers of the
\* second record are taken to settle, those of the first may never do.
SettleFairness ==
    /\ \A s \in Slots : WF_vars(\E ok \in BOOLEAN : ReplySettles(s, ok))
    /\ \A s \in Slots : WF_vars(\E ok \in BOOLEAN : FallbackSettles(s, ok))
    /\ \A s \in Slots : WF_vars(Retire(s))
    /\ WF_vars(\E ok \in BOOLEAN, acked \in BOOLEAN : HandlerSettles(2, ok, acked))

SpecStall == Init /\ [][ReloadNext]_vars /\ SettleFairness

----------------------------------------------------------------------------
(* The permission gate on its own: _checkPermissions applied to a command  *)
(* and a member drawn from bounded sets.                                   *)

GatePerms == {"KickMembers", "BanMembers"}

GateRoles == {"r1", "r2"}

GatePermLists == {<<>>, <<"KickMembers">>, <<"KickMembers", "BanMembers">>}

GateRoleLists ==
    {<<>>,
     <<[form |-> "string", role |-> "r1"]>>,
     <<[form |-> "string", role |-> "r1"], [form |-> "string", role |-> "r2"]>>,
     <<[form |-> "object", role |-> "r1"], [form |-> "object", role |-> "r2"]>>}

GateCommands ==
    {[Command(N_kick, TRUE, "ChatInput", 0, g, d, ps, rs, bs, <<>>, "kick.js")
         EXCEPT !.type = SLASH] :
        g \in BOOLEAN, d \in BOOLEAN, ps \in GatePermLists, rs \in GateRoleLists,
        bs \in GatePermLists}

GateBots ==
    {NoBot} \cup {[present |-> TRUE, admin |-> a, perms |-> ps] :
                     a \in BOOLEAN, ps \in SUBSET GatePerms}

\* interaction.member for the actor: null in a direct message
GateMembersOf(u) ==
    {NullMember} \cup
    {[present |-> TRUE, id |-> u, admin |-> a, perms |-> ps, roles |-> rs,
      guildRoles |-> GateRoles, me |-> b] :
        a \in BOOLEAN, ps \in SUBSET GatePerms,
        rs \in SUBSET GateRoles, b \in GateBots}

GateInit ==
    /\ now = StartTime
    /\ commands = loadCommands(CommandFiles)
    /\ cooldownUsers = {}
    /\ cooldowns = [u \in Users |-> <<>>]
    /\ timers = EmptyBag
    /\ handlers = BoundHandlers
    /\ ev = [s \in Slots |-> FreeEvent]
    /\ arrived = 0
    /\ lastReady = [u \in Users |-> <<>>]
    /\ gUser \in Users
    /\ gCommand \in GateCommands
    /\ gMember \in GateMembersOf(gUser)
    /\ gResult = NotChecked
    /\ RegistryIdle
    /\ TableIdle
    /\ PushIdle
    /\ MessageIdle
    /\ FaultIdle
    /\ PageIdle

Evaluate ==
    /\ gResult = NotChecked
    /\ gResult' = checkPermissions(gCommand, gMember)
    /\ UNCHANGED <<gUser, gCommand, gMember, dispatchVars, registryVars, tableVars,
                   pushVars, messageVars, faultVars,
                   pageVars>>

GateNext == Evaluate

SpecGate == GateInit /\ [][GateNext]_vars

----------------------------------------------------------------------------
(* Command loading on its own: the for loop of loadCommands over the files *)
(* of a command directory drawn from a bounded set, one file per step.     *)

\* how many files the directory holds
MaxFiles == 3

FilePaths == <<"f1", "f2", "f3", "f4", "f5">>

RegistryNames == {N_ping, N_p}

RegistryAliasLists == {<<>>, <<N_p>>, <<N_ping, N_kick>>}

\* a name and an alias written with a capital letter
N_P == <<"P">>

N_K == <<"K">>

\* what a file may export: a legacy command, a slash command, a command of
\* an unsupported application command type, an object without execute
FileShapes ==
    {Command(n, FALSE, "none", 0, FALSE, FALSE, <<>>, <<>>, <<>>, al, "none") :
        n \in RegistryNames, al \in RegistryAliasLists}
    \cup {Command(n, TRUE, "ChatInput", 0, FALSE, FALSE, <<>>, <<>>, <<>>, <<>>, "none") :
             n \in RegistryNames}
    \cup {Command(N_P, FALSE, "none", 0, FALSE, FALSE, <<>>, <<>>, <<>>, <<N_K>>, "none"),
          Command(N_ping, TRUE, "Other", 0, FALSE, FALSE, <<>>, <<>>, <<>>, <<>>, "none"),
          [Command(N_ping, FALSE, "none", 0, FALSE, FALSE, <<>>, <<>>, <<>>, <<>>, "none")
              EXCEPT !.hasExecute = FALSE]}

\* the directories: MaxFiles files, each with its own path
Directories ==
    {[i \in 1..MaxFiles |-> [shapes[i] EXCEPT !.filePath = FilePaths[i]]] :
        shapes \in [1..MaxFiles -> FileShapes]}

\* the idle values of the listeners' state
DispatchIdle ==
    /\ now = StartTime
    /\ commands = loadCommands(CommandFiles)
    /\ cooldownUsers = {}
    /\ cooldowns = [u \in Users |-> <<>>]
    /\ timers = EmptyBag
    /\ handlers = BoundHandlers
    /\ ev = [s \in Slots |-> FreeEvent]
    /\ arrived = 0
    /\ lastReady = [u \in Users |-> <<>>]

GateIdle ==
    /\ gUser = "none"
    /\ gCommand = NoCommand
    /\ gMember = NullMember
    /\ gResult = NotChecked

\* loadCommands has cleared this.commands and read the directory
RegistryInit ==
    /\ DispatchIdle
    /\ GateIdle
    /\ rFiles \in Directories
    /\ rIdx = 1
    /\ rCommands = EmptyMap
    /\ rLog = <<>>
    /\ TableIdle
    /\ PushIdle
    /\ MessageIdle
    /\ FaultIdle
    /\ PageIdle

\* one turn of the for loop
LoadNextFile ==
    /\ rIdx <= Len(rFiles)
    /\ rCommands' = registerFile(rCommands, rFiles[rIdx])
    /\ rLog' = rLog \o fileLog(rCommands, rFiles[rIdx])
    /\ rIdx' = rIdx + 1
    /\ UNCHANGED <<rFiles, dispatchVars, gateVars, tableVars, pushVars,
                   messageVars, faultVars,
                   pageVars>>

\* the load is over, and a member of a guild sends the prefix followed by a
\* key of the registry
Ask(key) ==
    /\ rIdx > Len(rFiles)
    /\ mOut = NoOutcome
    /\ key \in DOMAIN rCommands
    /\ mIn' = [content |-> prefix \o key, user |-> "u1", authorBot |-> FALSE,
               inGuild |-> TRUE]
    /\ mOut' = messageListener(prefix \o key, "u1", FALSE, TRUE, StartTime, rCommands,
                               NoOutcome.users, NoOutcome.store, NoOutcome.timers)
    /\ UNCHANGED <<mPrefix, registryVars, dispatchVars, gateVars, tableVars, pushVars,
                   faultVars, pageVars>>

RegistryNext == LoadNextFile \/ \E key \in DOMAIN rCommands : Ask(key)

SpecRegistry == RegistryInit /\ [][RegistryNext]_vars

----------------------------------------------------------------------------
(* The handler table on its own: registerHandler called with arguments     *)
(* drawn from bounded sets, and _findHandler applied to the table.         *)

\* how many registerHandler calls are followed
MaxBinds == 3

C_1star == <<"c", "1", "*">>

C_1x == <<"c", "1", "x">>

\* the patterns bound, and the customIds looked up
BindKeys == {C_1, C_star, C_1star}

LookupIds == {C_1, C_2, C_1x, N_zzz}

\* the type argument: a component type, or something else
BindTypes == {"button", "select", "menu"}

BindHandlers == {"h1", "h2"}

\* the bindings as made: one per pattern and kind, a later one for the same
\* pattern and kind taking the place of the earlier
bindByKind(bound, customId, type, handler) ==
    LET entry == [key |-> customId, type |-> type, handler |-> handler] IN
    IF \E i \in 1..Len(bound) : bound[i].key = customId /\ bound[i].type = type
    THEN [i \in 1..Len(bound) |->
             IF bound[i].key = customId /\ bound[i].type = type
             THEN entry ELSE bound[i]]
    ELSE Append(bound, entry)

TableInit ==
    /\ DispatchIdle
    /\ GateIdle
    /\ RegistryIdle
    /\ TableIdle
    /\ PushIdle
    /\ MessageIdle
    /\ FaultIdle
    /\ PageIdle

\* interactionManager.registerHandler(customId, type, handler)
Bind(customId, type, handler, isFunction) ==
    /\ tCalls < MaxBinds
    /\ tCalls' = tCalls + 1
    /\ tTable' = registerHandler(tTable, customId, type, handler, isFunction)
    /\ tLast' = [key |-> customId, type |-> type, isFunction |-> isFunction,
                 threw |-> registerHandlerThrows(type, isFunction)]
    /\ tBound' = IF registerHandlerThrows(type, isFunction) THEN tBound
                 ELSE bindByKind(tBound, customId, type, handler)
    /\ UNCHANGED <<dispatchVars, gateVars, registryVars, pushVars, messageVars, faultVars,
                   pageVars>>

TableNext ==
    \E customId \in BindKeys, type \in BindTypes, handler \in BindHandlers,
       isFunction \in BOOLEAN : Bind(customId, type, handler, isFunction)

SpecTable == TableInit /\ [][TableNext]_vars

----------------------------------------------------------------------------
(* Slash command registration on its own: registerSlashCommands on the     *)
(* registry of a small command directory, under every configuration.       *)

PushShapes ==
    {Command(N_kick, TRUE, "ChatInput", 0, FALSE, FALSE, <<>>, <<>>, <<>>, <<>>, "kick.js"),
     Command(N_mod, TRUE, "User", 0, FALSE, FALSE, <<>>, <<>>, <<>>, <<>>, "mod.js"),
     Command(N_ping, FALSE, "none", 0, FALSE, FALSE, <<>>, <<>>, <<>>, <<N_p>>, "ping.js"),
     Command(N_ping, TRUE, "undefined", 0, FALSE, FALSE, <<>>, <<>>, <<>>, <<>>, "ping2.js")}

PushDirectories == {<<a, b>> : a \in PushShapes, b \in PushShapes}

PushOptions ==
    [devGuildId : {"", "g1"}, registerGlobally : {"unset", "true", "false"},
     token : BOOLEAN, applicationId : BOOLEAN]

\* a command registered with the platform by an earlier run of the bot
StaleCommand == [name |-> N_zzz, type |-> 1]

\* what the platform holds when the bot starts
Remotes == [global : {EmptyBag, SetToBag({StaleCommand})},
            guild : {EmptyBag, SetToBag({StaleCommand})}]

PushInit ==
    /\ DispatchIdle
    /\ GateIdle
    /\ RegistryIdle
    /\ TableIdle
    /\ MessageIdle
    /\ FaultIdle
    /\ PageIdle
    /\ pCommands \in {loadCommands(d) : d \in PushDirectories}
    /\ pOptions \in PushOptions
    /\ pPc = "idle"
    /\ pCalls = <<>>
    /\ pLog = <<>>
    /\ pRemote \in Remotes
    /\ pPut = "none"

\* registerSlashCommands is called (by the constructor or the ready event)
Push ==
    /\ pPc = "idle"
    /\ LET out == pushStart(pCommands, pOptions) IN
       /\ pPc' = out.pc
       /\ pLog' = pLog \o out.log
       /\ pCalls' = pCalls \o out.calls
    /\ UNCHANGED <<pCommands, pOptions, pRemote, pPut, dispatchVars, gateVars,
                   registryVars, tableVars, messageVars, faultVars,
                   pageVars>>

\* the REST call settles
PutSettles(ok) ==
    /\ pPc = "awaiting"
    /\ pPc' = pushSettled(ok).pc
    /\ pLog' = pLog \o pushSettled(ok).log
    /\ pPut' = IF ok THEN "ok" ELSE "failed"
    /\ pRemote' = IF ok THEN remotePut(pRemote, pCalls[Len(pCalls)]) ELSE pRemote
    /\ UNCHANGED <<pCommands, pOptions, pCalls, dispatchVars, gateVars,
                   registryVars, tableVars, messageVars, faultVars,
                   pageVars>>

PushNext == Push \/ \E ok \in BOOLEAN : PutSettles(ok)

SpecPush == PushInit /\ [][PushNext]_vars

----------------------------------------------------------------------------
(* The intake of raw text messages on its own: one messageCreate event on  *)
(* a fresh handler, with and without a prefix in its options.              *)

\* options.prefix: absent, or the prefix of the model
Prefixes == {<<>>, prefix}

M_tab == <<"!", "p", "\t", "a">>

M_line == <<"!", "p", "i", "n", "g", "\n", "a", " ", "b">>

Messages ==
    [content : Contents \cup {M_tab, M_line}, user : Users, authorBot : BOOLEAN,
     inGuild : BOOLEAN]

\* if (this.prefix) { this.client.on('messageCreate', ...) }
messageListeners(pfx) == IF Len(pfx) > 0 THEN 1 ELSE 0

MessageInit ==
    /\ DispatchIdle
    /\ GateIdle
    /\ RegistryIdle
    /\ TableIdle
    /\ PushIdle
    /\ FaultIdle
    /\ PageIdle
    /\ mPrefix \in Prefixes
    /\ mIn \in Messages
    /\ mOut = NoOutcome

\* a text message that no listener heard
Unheard == [NoOutcome EXCEPT !.rec.kind = "TEXT"]

\* the client emits messageCreate: the listener runs if there is one (and
\* then the prefix is the one the registry was loaded under)
Deliver ==
    /\ mOut = NoOutcome
    /\ mOut' = IF messageListeners(mPrefix) = 0 THEN Unheard
               ELSE messageListener(mIn.content, mIn.user, mIn.authorBot, mIn.inGuild,
                                    StartTime, commands, NoOutcome.users,
                                    NoOutcome.store, NoOutcome.timers)
    /\ UNCHANGED <<mPrefix, mIn, dispatchVars, gateVars, registryVars, tableVars,
                   pushVars, faultVars, pageVars>>

MessageNext == Deliver

SpecMessage == MessageInit /\ [][MessageNext]_vars

----------------------------------------------------------------------------
(* The catch blocks of the three listeners on their own: what is logged    *)
(* and what is sent when a handler has thrown `error`.                     *)

Errors == {"TypeError: x is undefined", "Error: token abc rejected"}

SourcePaths == {"kick.js", "admin/ban.js"}

FixedCommandText == "An error occurred while executing this command!"

FixedComponentText == "An error occurred while processing this interaction!"

\* a variant that tells the user what went wrong
faultReportLeaks(listener, name, filePath, acked, error) ==
    [log |-> <<[level |-> "error", listener |-> listener, name |-> name,
                source |-> IF listener = "component" THEN "none" ELSE filePath,
                error |-> error]>>,
     verb |-> IF listener = "legacy" THEN "message.reply"
              ELSE IF acked THEN "followUp" ELSE "reply",
     content |-> error,
     ephemeral |-> listener # "legacy"]

\* catch (error) { this.logger.error(..., error); <send the failure message> }
faultReport(listener, name, filePath, acked, error) ==
    [log |-> <<[level |-> "error", listener |-> listener, name |-> name,
                source |-> IF listener = "component" THEN "none" ELSE filePath,
                error |-> error]>>,
     verb |-> IF listener = "legacy" THEN "message.reply"
              ELSE IF acked THEN "followUp" ELSE "reply",
     content |-> IF listener = "component" THEN FixedComponentText
                 ELSE FixedCommandText,
     ephemeral |-> listener # "legacy"]

Faults ==
    [listener : {"command", "legacy", "component"}, name : {N_kick, N_ping, C_1},
     filePath : SourcePaths, acked : BOOLEAN, error : Errors]

FaultInit ==
    /\ DispatchIdle
    /\ GateIdle
    /\ RegistryIdle
    /\ TableIdle
    /\ PushIdle
    /\ MessageIdle
    /\ PageIdle
    /\ fIn \in {f \in Faults : f.listener = "legacy" => ~f.acked}
    /\ fOut = NoReport

\* the awaited handler throws: the catch block runs
Report ==
    /\ fOut = NoReport
    /\ fOut' = faultReport(fIn.listener, fIn.name, fIn.filePath, fIn.acked, fIn.error)
    /\ UNCHANGED <<fIn, dispatchVars, gateVars, registryVars, tableVars, pushVars,
                   messageVars, pageVars>>

FaultNext == Report

SpecFault == FaultInit /\ [][FaultNext]_vars

----------------------------------------------------------------------------
(* The pagination helpers: createPagination(interaction, pages) and        *)
(* paginateContent(interaction, items, options).  pgIn is the call: items  *)
(* is the length of the array passed, pgState the closure of the call:     *)
(* its currentPage, the verb of the first send, the payload of the last    *)
(* send (shown), and the clicks the message has received.                  *)

MaxItems == 3

MaxClicks == 3

\* the pages paginateContent builds from position i on, one per chunk
RECURSIVE chunksFrom(_, _, _)
chunksFrom(i, length, itemsPerPage) ==
    IF i < length THEN 1 + chunksFrom(i + itemsPerPage, length, itemsPerPage) ELSE 0

\* pages.length: the array passed to createPagination, the chunks of
\* paginateContent
pagesLength(call) ==
    IF call.fn = "createPagination"
    THEN call.items
    ELSE chunksFrom(0, call.items, call.itemsPerPage)

\* the local `defer` of paginateContent is destructured from the options
\* before the test of interaction.deferred, which only writes options.defer
firstVerb(call) ==
    IF call.fn = "createPagination"
    THEN "reply"
    ELSE LET defer == call.defer
             optionsDefer == call.deferred \/ call.defer
         IN  IF defer THEN "editReply" ELSE "reply"

\* embeds: [pages[currentPage]], components: [buttons()]
render(currentPage, length) ==
    [page |-> currentPage,
     components |-> Buttons(currentPage = 0, currentPage = length - 1)]

\* a listener that turns the page on every click
turnPageUnbounded(customId, currentPage, length) ==
    IF customId = "prev" THEN currentPage - 1
    ELSE IF customId = "next" THEN currentPage + 1
    ELSE currentPage

\* the collect listener's update of currentPage
turnPage(customId, currentPage, length) ==
    IF customId = "prev" /\ currentPage > 0 THEN currentPage - 1
    ELSE IF customId = "next" /\ currentPage < length - 1 THEN currentPage + 1
    ELSE currentPage

\* the calls: createPagination takes no option
Paginations ==
    [fn : {"createPagination"}, items : 0..MaxItems, itemsPerPage : {0},
     deferred : BOOLEAN, defer : {FALSE}, user : {"u1"}]
    \cup [fn : {"paginateContent"}, items : 0..MaxItems, itemsPerPage : 1..2,
          deferred : BOOLEAN, defer : BOOLEAN, user : {"u1"}]

Clicks == [customId : {"prev", "next"}, user : Users]

PageInit ==
    /\ DispatchIdle
    /\ GateIdle
    /\ RegistryIdle
    /\ TableIdle
    /\ PushIdle
    /\ MessageIdle
    /\ FaultIdle
    /\ pgIn \in Paginations
    /\ pgState = Closed

\* the call up to its first await and the settling of the first send: an
\* empty array throws, a rejected send leaves no collector
Open(ok) ==
    /\ pgState.pc = "idle"
    /\ pgState' =
          IF pgIn.items = 0
          THEN [pgState EXCEPT !.pc = "threw"]
          ELSE IF ~ok
          THEN [pgState EXCEPT !.pc = "rejected", !.first = firstVerb(pgIn)]
          ELSE [pgState EXCEPT !.pc = "open", !.first = firstVerb(pgIn),
                               !.currentPage = 0,
                               !.shown = render(0, pagesLength(pgIn))]
    /\ UNCHANGED <<pgIn, dispatchVars, gateVars, registryVars, tableVars, pushVars,
                   messageVars, faultVars>>

\* a click on a button of the message: the collector's filter, then the
\* collect listener up to its await of i.update
Collect(click) ==
    /\ pgState.pc = "open"
    /\ pgState.clicks < MaxClicks
    /\ pgState' =
          IF click.user = pgIn.user
          THEN LET page == turnPage(click.customId, pgState.currentPage,
                                    pagesLength(pgIn))
               IN  [pgState EXCEPT !.currentPage = page,
                                   !.shown = render(page, pagesLength(pgIn)),
                                   !.clicks = @ + 1, !.last = click]
          ELSE [pgState EXCEPT !.clicks = @ + 1, !.last = click]
    /\ UNCHANGED <<pgIn, dispatchVars, gateVars, registryVars, tableVars, pushVars,
                   messageVars, faultVars>>

\* the collector's time is over: message.edit({ components: [] })
End ==
    /\ pgState.pc = "open"
    /\ pgState' = [pgState EXCEPT !.pc = "ended",
                                  !.shown = [page |-> pgState.currentPage,
                                             components |-> NoButtons]]
    /\ UNCHANGED <<pgIn, dispatchVars, gateVars, registryVars, tableVars, pushVars,
                   messageVars, faultVars>>

PageNext ==
    \/ \E ok \in BOOLEAN : Open(ok)
    \/ \E click \in Clicks : Collect(click)
    \/ End

SpecPaginate == PageInit /\ [][PageNext]_vars

----------------------------------------------------------------------------
(* Properties of the dispatch pipeline.                                    *)

\* the position of a stage in the trace of a run, 0 if it is not there
StageAt(trace, stage) ==
    IF \E i \in 1..Len(trace) : trace[i] = stage
    THEN CHOOSE i \in 1..Len(trace) :
            trace[i] = stage /\ \A j \in 1..(i - 1) : trace[j] # stage
    ELSE 0

Times(seq, x) == Cardinality({i \in 1..Len(seq) : seq[i] = x})

\* the runs of the command pipeline
IsCommandRun(s) == ev[s].kind \in CommandKinds \cup {LEGACY}

\* C1: a command handler is invoked for an event only if, for that event
\* and in this order, the name resolved to a descriptor, the cooldown check
\* returned Ready and the permission check returned Allow; the cooldown
\* check runs at most once per event.
C1_HandlerAfterChecks ==
    \A s \in Slots :
        /\ Times(ev[s].trace, "cooldown") <= 1
        /\ (IsCommandRun(s) /\ ev[s].invoked) =>
              /\ ev[s].command # NoCommand
              /\ ev[s].command.name \in DOMAIN commands
              /\ ev[s].cd = "Ready"
              /\ ev[s].perm = Allow
              /\ 0 < StageAt(ev[s].trace, "resolve")
              /\ StageAt(ev[s].trace, "resolve") < StageAt(ev[s].trace, "cooldown")
              /\ StageAt(ev[s].trace, "cooldown") < StageAt(ev[s].trace, "permission")
              /\ StageAt(ev[s].trace, "permission") < StageAt(ev[s].trace, "execute")

\* a handler of a command with a cooldown and a requirement is running
C1_Witness ==
    \E s \in Slots :
        /\ ev[s].pc = "executing" /\ ev[s].invoked /\ ev[s].kind = SLASH
        /\ ev[s].command.cooldown > 0 /\ ev[s].command.permissions # <<>>
        /\ ev[s].armed

\* C2: of two events for the same (user, command) with a positive cooldown
\* whose checks run at the same instant, with no cooldown armed before,
\* at most one observes Ready: a check made at the very instant at which
\* another check for the same key passed is Blocked.
C2_OneReadyPerInstant ==
    \A s \in Slots :
        (ev[s].command.cooldown > 0 /\ ev[s].since = 0) => ev[s].cd = "Blocked"

\* C3: for one (user, command) with cooldown cd > 0 the first check is
\* Ready; a check less than cd seconds after the last Ready is Blocked with
\* remaining = cd - elapsed; a check cd seconds or more after it is Ready.
C3_CheckSequence ==
    \A s \in Slots :
        (ev[s].command.cooldown > 0 /\ ev[s].cd # "none") =>
            LET cdMs == ev[s].command.cooldown * MsPerSecond IN
            /\ ev[s].since = -1 => ev[s].cd = "Ready"
            /\ (0 <= ev[s].since /\ ev[s].since < cdMs) =>
                  /\ ev[s].cd = "Blocked"
                  /\ ev[s].timeLeft * MsPerSecond = cdMs - ev[s].since
            /\ ev[s].since >= cdMs => ev[s].cd = "Ready"

\* C4: an actor the permission gate denies gets the denial and no cooldown
\* is armed for the event: an entry is made only by a dispatch that passes
\* the gate.
C4_DeniedArmsNothing ==
    \A s \in Slots :
        /\ ev[s].perm.r = "deny" => ~ev[s].armed
        /\ ev[s].armed => ev[s].perm = Allow

\* C5: a Blocked cooldown check does not invoke the handler, sends exactly
\* one reply with the remaining time, and leaves the stored entry and the
\* scheduled removals as they were.
C5_BlockedIsFrame ==
    /\ [](\A s \in Slots :
             ev[s].cd = "Blocked" =>
                /\ ~ev[s].invoked /\ ev[s].handler = "none"
                /\ ev[s].replies = 1 /\ ev[s].replyFor = "cooldown"
                /\ ev[s].timeLeft > 0
                /\ ev[s].fallbacks = 0)
    /\ [][\A s \in Slots :
             (ev[s].pc = "free" /\ ev'[s].cd = "Blocked") =>
                /\ cooldowns' = cooldowns
                /\ timers' = timers
                /\ ~ev'[s].armed]_vars

\* a blocked run whose reply is out, a second after the entry was made
C5_Witness ==
    \E s \in Slots :
        /\ ev[s].cd = "Blocked" /\ ev[s].pc = "replying"
        /\ ev[s].since = MsPerSecond /\ ev[s].timeLeft = 1

\* C6: a command handler that throws makes exactly one fault log naming the
\* command and exactly one attempt to send the failure message; if that
\* attempt fails, the failure is logged and the listener still returns.
C6_HandlerFaultReported ==
    \A s \in Slots :
        (IsCommandRun(s) /\ ev[s].threw) =>
            /\ Times(ev[s].log, Log("error", "fault", ev[s].command.name)) = 1
            /\ Cardinality({i \in 1..Len(ev[s].log) : ev[s].log[i].what = "fault"}) = 1
            /\ ev[s].fallbacks = 1
            /\ ev[s].pc \in {"fallback", "done"}
            /\ ev[s].fallbackFailed =>
                  Times(ev[s].log, Log("error", "fallbackFailed",
                                       ev[s].command.name)) = 1

\* a handler threw and the failure message could not be sent
C6_Witness ==
    \E s \in Slots :
        /\ IsCommandRun(s) /\ ev[s].threw /\ ev[s].fallbackFailed
        /\ ev[s].pc = "done"

\* C7: no fault leaves the dispatcher, whatever the event: the listener's
\* promise never rejects.
C7_NoFaultEscapes == \A s \in Slots : ev[s].pc # "crashed"

\* the run looked its name up and found nothing
NotFound(s) ==
    /\ ev[s].kind \in CommandKinds \cup {LEGACY} \cup ComponentKinds
    /\ StageAt(ev[s].trace, "resolve") > 0
    /\ ev[s].command = NoCommand
    /\ ev[s].handler = "none"

----------------------------------------------------------------------------
(* Properties of the permission gate.                                      *)

\* the requirements of gCommand that the actor fails, as numbered steps
holdsRole(member, r) == r.role \in member.roles

FailingSteps ==
    {n \in 1..5 :
        CASE n = 1 -> gCommand.guildOnly /\ ~gMember.present
          [] n = 2 -> gCommand.devOnly /\ gUser \notin ownerIds
          [] n = 3 -> /\ gMember.present /\ ~gMember.admin
                      /\ \E p \in Range(gCommand.permissions) : p \notin gMember.perms
          [] n = 4 -> /\ gMember.present /\ gCommand.roles # <<>>
                      /\ \A r \in Range(gCommand.roles) : ~holdsRole(gMember, r)
          [] n = 5 -> /\ gMember.present /\ gCommand.botPermissions # <<>>
                      /\ \/ ~gMember.me.present
                         \/ /\ ~gMember.me.admin
                            /\ \E p \in Range(gCommand.botPermissions) :
                                  p \notin gMember.me.perms}

StepOf(why) ==
    CASE why = "guildOnly" -> 1
      [] why = "ownerOnly" -> 2
      [] why = "userPerms" -> 3
      [] why = "roles" -> 4
      [] why \in {"botUnverified", "botPerms"} -> 5
      [] OTHER -> 0

\* C9: the gate checks guildOnly, ownerOnly, user capabilities, roles, bot
\* capabilities in this order and returns the denial of the first check
\* that fails; it returns Allow only when none fails.
C9_FirstFailingCheck ==
    gResult # NotChecked =>
        /\ FailingSteps # {} =>
              /\ gResult.r = "deny"
              /\ \A n \in FailingSteps : StepOf(gResult.why) <= n
              /\ StepOf(gResult.why) \in FailingSteps
        /\ gResult = Allow => FailingSteps = {}

\* C10: when the gate gets to the role step, an actor holding one of the
\* required roles passes it, and an actor holding none is returned a Deny
\* that names every required role.
C10_RoleStep ==
    (gResult # NotChecked /\ gCommand.roles # <<>> /\ gMember.present
        /\ FailingSteps \cap {1, 2, 3} = {}) =>
        IF \E r \in Range(gCommand.roles) : holdsRole(gMember, r)
        THEN gResult.r \in {"allow", "deny"} /\ gResult.why # "roles"
        ELSE gResult = Deny("roles", [i \in 1..Len(gCommand.roles) |->
                                         gCommand.roles[i].role])

\* the required capabilities the actor does not hold, in the order required
MissingOf(required, held) ==
    LET lacks(p) == p \notin held IN SelectSeq(required, lacks)

\* C11: a guild member holding Administrator is never denied by the user
\* capability step, whatever the command requires; a member without it is
\* denied at that step iff a required capability is missing, and the denial
\* lists exactly the missing ones.
C11_AdminBypass ==
    (gResult # NotChecked /\ gMember.present /\ gCommand.permissions # <<>>
        /\ FailingSteps \cap {1, 2} = {}) =>
        IF gMember.admin
        THEN gResult.why # "userPerms"
        ELSE LET missing == MissingOf(gCommand.permissions, gMember.perms) IN
             IF missing # <<>>
             THEN gResult = Deny("userPerms", missing)
             ELSE gResult.why # "userPerms"

\* an administrator holding none of the two capabilities required is let in
C11_Witness ==
    /\ gResult = Allow /\ gMember.present /\ gMember.admin
    /\ gMember.perms = {} /\ Len(gCommand.permissions) = 2

\* C12: for a devOnly command the gate denies with the owner-only reason
\* exactly when the actor's id is not in the owner set: an owner is never
\* denied as non-owner, in a guild or in a direct message.
C12_OwnerOnly ==
    (gResult # NotChecked /\ gCommand.devOnly /\ 1 \notin FailingSteps) =>
        (gResult = Deny("ownerOnly", <<>>) <=> gUser \notin ownerIds)

\* the bot lacks a required capability in the actor's guild
BotLacks ==
    /\ gMember.me.present /\ ~gMember.me.admin
    /\ \E p \in Range(gCommand.botPermissions) : p \notin gMember.me.perms

\* C13: for a guild member and a non-empty botPermissions, the gate denies
\* with the cannot-verify reason when the bot's own member is not resolved;
\* otherwise it denies iff the bot lacks a required capability; the gate
\* never allows (so no handler runs) while the bot lacks one.
C13_BotCapabilities ==
    (gResult # NotChecked /\ gMember.present /\ gCommand.botPermissions # <<>>) =>
        /\ (~gMember.me.present \/ BotLacks) => gResult.r # "allow"
        /\ FailingSteps \cap {1, 2, 3, 4} = {} =>
              IF ~gMember.me.present
              THEN gResult = Deny("botUnverified", <<>>)
              ELSE IF BotLacks
              THEN gResult = Deny("botPerms",
                                  MissingOf(gCommand.botPermissions,
                                            gMember.me.perms))
              ELSE gResult = Allow

\* the bot's member is not resolved and the actor passes every other check
C13_Witness ==
    /\ gResult = Deny("botUnverified", <<>>)
    /\ gMember.present /\ ~gMember.me.present
    /\ gCommand.roles # <<>> /\ gCommand.permissions # <<>>

----------------------------------------------------------------------------
(* Properties of command loading.                                          *)

\* the file registers a command: it exports execute and a supported data
\* builder, or a name
Accepted(f) ==
    /\ f.hasExecute
    /\ IF f.hasData THEN f.dataType \in {"ChatInput", "undefined", "User", "Message"}
       ELSE f.name # <<>>

\* the files read so far that registered a command under the name
RegisteredAs(name) ==
    {i \in 1..(rIdx - 1) : Accepted(rFiles[i]) /\ rFiles[i].name = name}

\* C14: after any sequence of registrations, a canonical name resolves to
\* the descriptor registered last under it; every registration of a name
\* after the first is reported with a warning.
C14_LastRegistrationWins ==
    \A name \in RegistryNames :
        LET regs == RegisteredAs(name) IN
        regs # {} =>
            LET last == CHOOSE i \in regs : \A j \in regs : j <= i
                first == CHOOSE i \in regs : \A j \in regs : i <= j
            IN  /\ name \in DOMAIN rCommands
                /\ rCommands[name].filePath = rFiles[last].filePath
                /\ rCommands[name].name = name
                /\ rCommands[name].aliases = rFiles[last].aliases
                /\ rCommands[name].hasData = rFiles[last].hasData
                /\ \A i \in regs \ {first} :
                      RegEntry("nameConflict", name, rFiles[i].filePath)
                          \in Range(rLog)

\* the whole directory is loaded and its last file re-registers the name of
\* its first
C14_Witness ==
    /\ rIdx = Len(rFiles) + 1
    /\ Accepted(rFiles[1]) /\ Accepted(rFiles[Len(rFiles)])
    /\ rFiles[1].name = N_ping /\ rFiles[Len(rFiles)].name = N_ping
    /\ rCommands[N_ping].filePath = rFiles[Len(rFiles)].filePath

\* C15: an alias registered after its canonical legacy command resolves to
\* the very same descriptor as the canonical name; an alias equal to a name
\* or alias already registered is rejected (with a warning) and the mapping
\* of that key is left as it was.
C15_AliasRegistration ==
    [][rIdx' = rIdx + 1 =>
          LET f == rFiles[rIdx] IN
          (Accepted(f) /\ ~f.hasData) =>
              \A k \in 1..Len(f.aliases) :
                  LET a == f.aliases[k]
                      taken == \/ a \in DOMAIN rCommands
                               \/ a = f.name
                               \/ \E j \in 1..(k - 1) : f.aliases[j] = a
                  IN  IF taken
                      THEN /\ (a \in DOMAIN rCommands /\ a # f.name) =>
                                 rCommands'[a] = rCommands[a]
                           /\ a = f.name => rCommands'[a].filePath = f.filePath
                           /\ (a \in DOMAIN rCommands \/ a = f.name) =>
                                 RegEntry("aliasConflict", a, f.filePath)
                                     \in Range(rLog')
                      ELSE /\ rCommands'[a] = rCommands'[f.name]
                           /\ rCommands'[a].filePath = f.filePath]_vars

\* the second file's first alias is the first file's name and was rejected,
\* its second alias was free and resolves as its own name does
C15_Witness ==
    /\ rIdx = 3
    /\ rFiles[2].name = N_p /\ rFiles[2].aliases = <<N_ping, N_kick>>
    /\ ~rFiles[2].hasData
    /\ N_ping \in DOMAIN rCommands /\ rCommands[N_ping].filePath = rFiles[1].filePath
    /\ N_kick \in DOMAIN rCommands /\ rCommands[N_kick] = rCommands[N_p]
    /\ rCommands[N_p].filePath = rFiles[2].filePath

\* C16: on a collision between an alias and another command's canonical
\* name the registry keeps the first binding: an alias that was registered
\* keeps resolving to the command it was registered for, also when a later
\* command has that alias as its canonical name.
C16_FirstBindingKept ==
    \A i \in 1..Len(rLog) :
        rLog[i].what = "alias" =>
            /\ rLog[i].key \in DOMAIN rCommands
            /\ rCommands[rLog[i].key].filePath = rLog[i].file

----------------------------------------------------------------------------
(* Properties of the handler table.                                        *)

\* what a lookup must give from the bindings made, each scoped by its kind:
\* the exact pattern of the kind, else the first prefix pattern of the kind
\* in registration order, else nothing
ResolveByKind(bound, id, type) ==
    LET exact == {i \in 1..Len(bound) : bound[i].key = id /\ bound[i].type = type}
        byPrefix == {i \in 1..Len(bound) :
                        /\ bound[i].type = type
                        /\ Len(bound[i].key) > 0
                        /\ bound[i].key[Len(bound[i].key)] = "*"
                        /\ Len(id) >= Len(bound[i].key) - 1
                        /\ \A k \in 1..(Len(bound[i].key) - 1) :
                              id[k] = bound[i].key[k]}
    IN  IF exact # {} THEN bound[CHOOSE i \in exact : TRUE].handler
        ELSE IF byPrefix # {}
        THEN bound[CHOOSE i \in byPrefix : \A j \in byPrefix : i <= j].handler
        ELSE "null"

\* C17: resolving a component identifier for a kind gives the handler bound
\* to the identical exact pattern for that kind if there is one, otherwise
\* the handler of the first prefix pattern of that kind, in registration
\* order, whose prefix starts the identifier, otherwise NotFound.
C17_ExactThenPrefix ==
    \A id \in LookupIds \cup BindKeys, type \in ComponentTypes :
        findHandler(tTable, id, type) = ResolveByKind(tBound, id, type)

\* C18: bindings are scoped by kind: binding a pattern for one kind never
\* changes what a lookup for another kind returns, for any identifier.
C18_KindScoped ==
    [][tCalls' = tCalls + 1 =>
          \A id \in LookupIds \cup BindKeys :
              \A type \in ComponentTypes \ {tLast'.type} :
                  findHandler(tTable', id, type) = findHandler(tTable, id, type)]_vars

\* C19: registerHandler fails when the handler is not a function or the
\* type is not button, select or modal, and then leaves the handler table
\* exactly as it was.
C19_FailedBindIsFrame ==
    [][tCalls' = tCalls + 1 =>
          /\ tLast'.threw <=>
                (~tLast'.isFunction \/ tLast'.type \notin {"button", "select", "modal"})
          /\ tLast'.threw => tTable' = tTable
          /\ ~tLast'.threw =>
                \E i \in 1..Len(tTable') :
                    tTable'[i].key = tLast'.key /\ tTable'[i].type = tLast'.type]_vars

\* a call with a function and an unknown type has failed after a binding
\* was made
C19_Witness ==
    /\ tCalls = 2 /\ tLast.threw /\ tLast.isFunction /\ tLast.type = "menu"
    /\ Len(tTable) = 1

----------------------------------------------------------------------------
(* Properties of the slash command registration.                           *)

\* the descriptors of the registry that are not legacy commands
NonLegacy == {pCommands[k] : k \in {x \in DOMAIN pCommands : pCommands[x].type # LEGACY}}

\* what the platform is to be sent for a descriptor
Serialized(d) ==
    [name |-> d.name,
     type |-> IF d.type = USER THEN 2 ELSE IF d.type = MESSAGE THEN 3 ELSE 1]

\* C20: a push makes at most one full-replace call; its body holds exactly
\* the serialized non-legacy descriptors of the registry, each once; it goes
\* to the development guild iff a devGuildId is configured and the
\* register-globally flag is false, and to the global scope otherwise.
C20_OneScopedCall ==
    /\ Len(pCalls) <= 1
    /\ \A i \in 1..Len(pCalls) :
          /\ BagCardinality(pCalls[i].body) = Cardinality(NonLegacy)
          /\ \A d \in NonLegacy : CopiesIn(Serialized(d), pCalls[i].body) = 1
          /\ LET flag == IF pOptions.registerGlobally = "unset"
                         THEN pOptions.devGuildId = ""
                         ELSE pOptions.registerGlobally = "true"
             IN  IF pOptions.devGuildId # "" /\ ~flag
                 THEN pCalls[i].route = [scope |-> "guild",
                                         guild |-> pOptions.devGuildId]
                 ELSE pCalls[i].route = [scope |-> "global", guild |-> ""]

\* a registry with a legacy command, its alias and a slash command has been
\* pushed to the development guild
C20_Witness ==
    /\ Len(pCalls) = 1 /\ pCalls[1].route.scope = "guild"
    /\ N_p \in DOMAIN pCommands /\ pCommands[N_p].type = LEGACY
    /\ N_kick \in DOMAIN pCommands
    /\ pPc = "done"

\* C21: once a push by an authenticated client has completed, the platform
\* holds, in the scope the push targets, exactly the serialized non-legacy
\* descriptors of the registry, each once: every command registered before
\* and absent from the registry is gone, also when the registry holds no
\* non-legacy descriptor at all.
C21_RemoteIsCurrentSet ==
    (pPc = "done" /\ pOptions.token /\ pOptions.applicationId) =>
        LET held == pRemote[registrationRoute(pOptions).scope] IN
        /\ BagCardinality(held) = Cardinality(NonLegacy)
        /\ \A d \in NonLegacy : CopiesIn(Serialized(d), held) = 1

\* C22: a push attempted by a client without a token or without an
\* application id logs an error, makes no remote call, and returns without
\* throwing; it is not attempted again.
C22_UnauthenticatedFailsLoudly ==
    (pPc # "idle" /\ (~pOptions.token \/ ~pOptions.applicationId)) =>
        /\ pPc = "done"
        /\ pCalls = <<>>
        /\ Len(pLog) = 1
        /\ pLog[1] \in {"error:token", "error:applicationId"}

\* C23: when the full-replace call fails, the push logs the failure, makes
\* no further call, and completes without throwing or rejecting.
C23_FailedPushIsLogged ==
    pPut = "failed" =>
        /\ pPc = "done"
        /\ Len(pCalls) = 1
        /\ \E i \in 1..Len(pLog) : pLog[i] = "error:failed"

----------------------------------------------------------------------------
(* Properties of reloading and of stalled handlers.                        *)

\* the registries loadCommands builds from a directory, start to end
CompleteRegistries == {loadFiles(EmptyMap, d, 1) : d \in ReloadDirectories}

\* what an event naming `name` of kind `kind` resolves to in a registry
ResolvedIn(cmds, name, kind) ==
    IF name \in DOMAIN cmds /\ cmds[name].type = kind THEN cmds[name] ELSE NoCommand

\* C24: a reload is atomic for the dispatcher. The registry an event is
\* resolved against is always one that loadCommands built completely, never
\* a cleared or half built one; and a run that has resolved a descriptor
\* keeps it through any reload: it executes and reports its fault against
\* that descriptor, also when the registry no longer holds it.
C24_ReloadIsAtomic ==
    [][/\ commands \in CompleteRegistries
       /\ commands' \in CompleteRegistries
       /\ \A s \in Slots :
             /\ (ev[s].pc = "free" /\ ev'[s].pc # "free"
                    /\ ev'[s].kind \in CommandKinds \cup {LEGACY})
                 => ev'[s].command = ResolvedIn(commands, ev'[s].name, ev'[s].kind)
             /\ (ev[s].pc \in {"replying", "executing", "fallback"}
                    /\ ev'[s].pc # "free")
                 => /\ ev'[s].command = ev[s].command
                    /\ ev'[s].invoked = ev[s].invoked
                    /\ (ev'[s].threw /\ ~ev[s].threw)
                       => ev'[s].log[Len(ev'[s].log)] =
                             Log("error", "fault",
                                 IF ev[s].kind = LEGACY THEN ev[s].command.name
                                 ELSE ev[s].name)]_vars

\* the handler of kick is running and a reload has taken kick out of the
\* registry
C24_Witness ==
    \E s \in Slots :
       /\ ev[s].pc = "executing" /\ ev[s].command.name = N_kick
       /\ N_kick \notin DOMAIN commands

\* C25: a handler that never completes stalls the pipeline of its own event
\* only: whatever the first record's handler does, an event in the second
\* record is brought to its end, and a pending reply or failure message of
\* any event is settled and its run ended.
C25_StallIsLocal ==
    \A s \in Slots :
       (ev[s].pc \in {"replying", "fallback"} \/ (s = 2 /\ ev[s].pc = "executing"))
          ~> Finished(s)

\* while the handler of kick is running for u1, a second kick of u1 has
\* been classified, resolved, checked and answered
C25_Witness ==
    /\ ev[1].pc = "executing" /\ ev[1].name = N_kick
    /\ ev[2].pc = "done" /\ ev[2].name = N_kick /\ ev[2].user = ev[1].user
    /\ ev[2].cd = "Blocked" /\ ev[2].replies = 1

----------------------------------------------------------------------------
(* Properties of the cooldown store.                                       *)

\* C26: a cooldown armed by a run stays armed when the handler of that run
\* throws: a later check of the same user and command, made less than the
\* cooldown after the check of the failed run, is Blocked.
C26_ArmedAfterFault ==
    \A s \in Slots :
       (/\ ev[s].afterFault
        /\ ev[s].since >= 0
        /\ ev[s].since < ev[s].command.cooldown * MsPerSecond)
       => ev[s].cd = "Blocked"

\* C27: for a command whose cooldown is absent, zero or negative every
\* check is Ready and leaves the store as it was: no entry is made, no
\* Collection is made for the user, no removal is scheduled.
C27_NoCooldownIsFrame ==
    [][\A s \in Slots :
          (/\ ev[s].pc = "free" /\ ev'[s].pc # "free"
           /\ ev'[s].command # NoCommand
           /\ ev'[s].command.cooldown <= 0)
          => /\ ev'[s].cd = "Ready"
             /\ ~ev'[s].armed
             /\ cooldowns' = cooldowns
             /\ cooldownUsers' = cooldownUsers
             /\ timers' = timers]_vars

\* ping (no cooldown) has been checked for one user and mod (a negative
\* cooldown) for another, and the store holds no Collection
C27_Witness ==
    /\ \E s \in Slots : ev[s].command.name = N_ping /\ ev[s].cd = "Ready"
                         /\ ev[s].command.cooldown = 0
    /\ \E s \in Slots : ev[s].command.name = N_mod /\ ev[s].cd = "Ready"
                         /\ ev[s].command.cooldown < 0
    /\ cooldownUsers = {}

\* C28: the store does not grow without bound: once every scheduled removal
\* has fired, it holds nothing for any user, neither an entry nor a
\* Collection.
C28_StoreDrains ==
    timers = EmptyBag =>
        /\ \A u \in Users : cooldowns[u] = <<>>
        /\ cooldownUsers = {}

----------------------------------------------------------------------------
(* Properties of the classification of events.                             *)

C30_IgnoredMessages ==
    (mOut # NoOutcome /\ (mIn.authorBot \/ ~mIn.inGuild \/ Len(mPrefix) = 0)) =>
        /\ mOut.rec.replies = 0 /\ mOut.rec.fallbacks = 0
        /\ ~mOut.rec.invoked /\ ~mOut.rec.armed
        /\ mOut.rec.cd = "none" /\ mOut.rec.perm = NotChecked
        /\ mOut.rec.command = NoCommand
        /\ mOut.rec.log = <<>>
        /\ mOut.users = {} /\ mOut.timers = EmptyBag
        /\ \A u \in Users : mOut.store[u] = <<>>

\* a bot account has sent "!ping" in a guild in the name of the owner, for
\* whom the legacy command ping would run
C30_Witness ==
    /\ mOut # NoOutcome
    /\ mPrefix = prefix
    /\ mIn = [content |-> M_ping, user |-> "u1", authorBot |-> TRUE, inGuild |-> TRUE]
    /\ commands[N_ping].type = LEGACY

----------------------------------------------------------------------------
(* Properties of the legacy message parser.                                *)

\* the pieces of s between runs of whitespace, none of them empty
RECURSIVE TokensFrom(_, _, _, _)
TokensFrom(s, i, cur, out) ==
    IF i > Len(s) THEN (IF cur = <<>> THEN out ELSE Append(out, cur))
    ELSE IF s[i] \in Whitespace
    THEN TokensFrom(s, i + 1, <<>>, IF cur = <<>> THEN out ELSE Append(out, cur))
    ELSE TokensFrom(s, i + 1, Append(cur, s[i]), out)

Tokens(s) == TokensFrom(s, 1, <<>>, <<>>)

\* the messages the legacy listener goes on to parse and that name something
IsParsed ==
    /\ mOut # NoOutcome /\ messageListeners(mPrefix) = 1
    /\ ~mIn.authorBot /\ mIn.inGuild /\ StartsWith(mIn.content, mPrefix)
    /\ Tokens(Slice(mIn.content, Len(mPrefix))) # <<>>

\* C31: the text after the prefix is trimmed and split on runs of
\* whitespace (spaces, tabs, newlines): the lower-cased first token is the
\* command identifier, the other tokens, in order and none empty, are the
\* args.
C31_SplitOnWhitespace ==
    IsParsed =>
        LET tokens == Tokens(Slice(mIn.content, Len(mPrefix))) IN
        /\ mOut.rec.name = toLowerCase(Head(tokens))
        /\ mOut.rec.args = Tail(tokens)

----------------------------------------------------------------------------
(* Properties of the fault report.                                         *)

\* C32: the failure message of an interaction (command or component) whose
\* handler threw is sent with followUp iff the interaction had been replied
\* to or deferred by then, and with reply otherwise: no reply is issued on
\* an interaction whose reply is consumed.
C32_FaultVerb ==
    \A s \in Slots :
       (ev[s].kind \in CommandKinds \cup ComponentKinds /\ ev[s].threw) =>
          /\ ev[s].verb = IF ev[s].acked THEN "followUp" ELSE "reply"
          /\ ev[s].fallbacks = 1
          /\ ev[s].replies = 0

\* a slash command and a button handler have both thrown, the first after
\* deferring, the second before any reply
C32_Witness ==
    /\ \E s \in Slots : ev[s].kind = SLASH /\ ev[s].threw /\ ev[s].acked
                         /\ ev[s].verb = "followUp"
    /\ \E s \in Slots : ev[s].kind = "BUTTON" /\ ev[s].threw /\ ~ev[s].acked
                         /\ ev[s].verb = "reply"

\* C34: a bound component handler that throws or rejects is caught: the
\* fault is logged once with the customId, one failure message is
\* attempted, and the listener returns also when that attempt fails (the
\* failure is logged); component events go on being dispatched.
C34_ComponentFaultContained ==
    \A s \in Slots :
       ev[s].kind \in ComponentKinds =>
          /\ ev[s].pc # "crashed"
          /\ ev[s].threw =>
                /\ ev[s].invoked /\ ev[s].handler # "null"
                /\ Times(ev[s].log, Log("error", "fault", ev[s].name)) = 1
                /\ Cardinality({i \in 1..Len(ev[s].log) :
                                   ev[s].log[i].what = "fault"}) = 1
                /\ ev[s].fallbacks = 1
                /\ ev[s].pc \in {"fallback", "done"}
                /\ ev[s].fallbackFailed =>
                      /\ ev[s].pc = "done"
                      /\ Times(ev[s].log,
                               Log("error", "fallbackFailed", ev[s].name)) = 1

\* a component handler threw and its failure message could not be sent;
\* the handler of another component event is running
C34_Witness ==
    \E s \in Slots, r \in Slots :
       /\ ev[s].kind \in ComponentKinds /\ ev[s].threw
       /\ ev[s].fallbackFailed /\ ev[s].pc = "done"
       /\ r # s /\ ev[r].kind \in ComponentKinds /\ ev[r].pc = "executing"

\* C33: the failure message sent after a handler fault is a fixed text: it
\* is the same whatever error was thrown and whatever the source file of
\* the command, so two runs that differ only in these send the same reply;
\* the error (and the source file of a command) go to the log only.
C33_FixedFailureMessage ==
    fOut # NoReport =>
        /\ fOut.content \in {FixedCommandText, FixedComponentText}
        /\ fOut.content \notin Errors \cup SourcePaths
        /\ \A e \in Errors, f \in SourcePaths :
              LET other == faultReport(fIn.listener, fIn.name, f, fIn.acked, e) IN
              /\ other.content = fOut.content
              /\ other.verb = fOut.verb
              /\ other.ephemeral = fOut.ephemeral
        /\ Len(fOut.log) = 1
        /\ fOut.log[1].error = fIn.error
        /\ fIn.listener # "component" => fOut.log[1].source = fIn.filePath

\* the handler of kick (admin/ban.js) threw an error that quotes a token
C33_Witness ==
    /\ fOut # NoReport
    /\ fIn.listener = "command" /\ fIn.filePath = "admin/ban.js"
    /\ fIn.error = "Error: token abc rejected"
    /\ fOut.content = FixedCommandText

----------------------------------------------------------------------------
(* Properties of the gate outside a guild.                                 *)

\* C35: for a user without a guild member (a direct message) and a command
\* that is neither guildOnly nor devOnly the gate allows, whatever
\* permissions, roles and bot permissions the command requires.
C35_DirectMessageAllowed ==
    (/\ gResult # NotChecked
     /\ ~gMember.present
     /\ ~gCommand.guildOnly /\ ~gCommand.devOnly)
    => gResult = Allow

\* allowed in a direct message: a command that requires permissions, roles
\* and bot permissions
C35_Witness ==
    /\ gResult = Allow
    /\ ~gMember.present
    /\ Len(gCommand.permissions) > 0
    /\ Len(gCommand.roles) > 0
    /\ Len(gCommand.botPermissions) > 0

----------------------------------------------------------------------------
(* Properties of the loaded registry.                                      *)

\* C36: a scheduled removal removes only the entry of the arming that
\* scheduled it: whenever an entry leaves the store, the timeout that ran is
\* the one scheduled when that very entry was stamped, so a removal that
\* fires late never deletes the entry of a later arming.
C36_RemovalOwnsEntry ==
    [][\A u \in Users : \A id \in DOMAIN cooldowns[u] :
          id \notin DOMAIN cooldowns'[u] =>
             \E tm \in BagToSet(timers) :
                /\ timers' = timers (-) SetToBag({tm})
                /\ tm.user = u /\ tm.id = id
                /\ tm.due = cooldowns[u][id] + commands[id].cooldown * MsPerSecond]_vars

\* C37: at any point of a load every key of the registry, name or alias,
\* maps to a descriptor whose own name maps to that same descriptor: no
\* alias resolves to a descriptor that was overwritten under its name.
C37_AliasesFollowNames ==
    \A k \in DOMAIN rCommands :
       /\ rCommands[k].name \in DOMAIN rCommands
       /\ rCommands[rCommands[k].name] = rCommands[k]

\* C38: every legacy name and accepted alias of the registry is reachable:
\* a guild member's message made of the prefix and the key resolves to the
\* descriptor the key maps to, in whatever letter case the key was
\* registered.
C38_KeysAreReachable ==
    (/\ mOut # NoOutcome
     /\ Slice(mIn.content, Len(prefix)) \in DOMAIN rCommands
     /\ rCommands[Slice(mIn.content, Len(prefix))].type = LEGACY)
    => mOut.rec.command = rCommands[Slice(mIn.content, Len(prefix))]

----------------------------------------------------------------------------
(* Properties of the pagination helpers.                                   *)

\* C39: when paginateContent is called on an interaction that is already
\* deferred, the first page is sent with editReply, never with reply,
\* whether or not options.defer was passed.
C39_DeferredUsesEditReply ==
    (pgIn.fn = "paginateContent" /\ pgIn.deferred /\ pgState.first # "none")
    => pgState.first = "editReply"

\* C40: in createPagination and paginateContent, after any clicks on prev
\* and next the page index stays within 0..pages.length-1, the rendered
\* prev button is disabled exactly on page 0 and the next button exactly on
\* the last page, and a click by a user other than the invoker changes
\* neither the page nor the message.
C40_PageStaysInRange ==
    [][pgState'.pc = "open" =>
          /\ pgState'.currentPage \in 0..(pagesLength(pgIn) - 1)
          /\ pgState'.shown.page = pgState'.currentPage
          /\ pgState'.shown.components.present
          /\ pgState'.shown.components.prev <=> pgState'.currentPage = 0
          /\ pgState'.shown.components.next
                <=> pgState'.currentPage = pagesLength(pgIn) - 1
          /\ (pgState.pc = "open" /\ pgState'.last.user # pgIn.user)
                => /\ pgState'.currentPage = pgState.currentPage
                   /\ pgState'.shown = pgState.shown]_vars

C40_Witness ==
    /\ pgState.pc = "open"
    /\ pagesLength(pgIn) >= 2
    /\ pgState.currentPage = pagesLength(pgIn) - 1
    /\ pgState.clicks = MaxClicks
    /\ pgState.last = [customId |-> "next", user |-> "u2"]

====
